---- MODULE Spec2Model ----
(***************************************************************************)
(* A model of the deployment orchestration engine of kne                   *)
(* (src/deploy/deploy.go).                                                  *)
(*                                                                         *)
(*   Spec         Deployment.Deploy / Deployment.Healthy /                 *)
(*                Deployment.Delete over abstract components, with a       *)
(*                clock for the per-stage health deadlines.                *)
(*   SpecWatch    deploymentHealthy and MeshnetSpec.Healthy: the select    *)
(*                loop over ctx.Done() and the watch's event channel.      *)
(*   SpecWatchLive  SpecWatch with the watch function and the deadline     *)
(*                scheduled fairly.                                        *)
(*   SpecInc      inc, the byte-wise increment of an IP address.           *)
(*   SpecMetalLB  MetalLBSpec.Deploy against the secret and the config-map *)
(*                of a cluster, with makeConfig and inc.                   *)
(*   SpecHost     KindSpec.Deploy / Delete / Healthy and IxiaTGSpec.Deploy *)
(*                over the execer, DOCKER_CONFIG and temporary files.      *)
(***************************************************************************)
EXTENDS Integers, Sequences, FiniteSets, TLC

VARIABLES
    \* ---- Deployment (orchestrator) ----
    pc,            \* position inside the running Deployment method, or "idle"
    op,            \* the Deployment method being run: "Deploy", "Healthy", "Delete"
    calls,         \* component methods invoked by the running call, with their results
    ret,           \* what the last Deployment method returned
    missing,       \* binaries execLookPath does not resolve
    probed,        \* binaries execLookPath was asked for by the running call
    nctl,          \* len(d.Controllers)
    i,             \* index of the controller loop
    now,           \* the clock, in seconds
    ctxCancelled,  \* the caller's ctx is cancelled
    tCtx,          \* the tCtx local variable: the current stage's timeout context
    callStart,     \* the time the running call was made
    waitStart,     \* the time the current tCtx was made
    lastWait,      \* the last Healthy(tCtx) that returned: start, end, result
    kClient,       \* the kClient local variable of Deploy
    kc,            \* the kClient field of every component
    nbuilt,        \* clientsets built so far (the next handle's identity)
    ncalls,        \* Deployment methods called so far
    \* ---- deploymentHealthy and MeshnetSpec.Healthy ----
    wfn,           \* the watch function that runs
    wpc,           \* its position: "Watch", "select", "event", "next", "returned"
    wctxDone,      \* ctx.Done() is closed
    ch,            \* the watch's ResultChan: empty, an event offered, or closed
    ev,            \* e.Object of the event received in this iteration
    wret,          \* what the watch function returned
    nsent,         \* events the stream has offered so far
    doneAtRecv,    \* ctx.Done() was already closed when the last event was received
    nrecv,         \* events received so far
    firstUnavail,  \* NumberUnavailable of the first DaemonSet received, -1 before
    \* ---- inc ----
    incIP,         \* the net.IP slice handed to inc, which inc changes in place
    incCnt,        \* the cnt variable of inc, counted down by its loop
    incOrig,       \* the bytes of the slice when inc was called
    incN,          \* the value of cnt when inc was called
    incPc,         \* "loop" while inc runs, "done" when it has returned
    \* ---- MetalLBSpec.Deploy ----
    mpc,           \* position inside MetalLBSpec.Deploy, "idle" or "returned"
    mret,          \* what the last MetalLBSpec.Deploy returned
    mkc,           \* m.kClient
    dClient,       \* m.dClient is not nil
    cluster,       \* the content of the secret and of the config-map
    mcalls,        \* calls of MetalLBSpec.Deploy so far
    IPCount,       \* m.IPCount
    nr,            \* what NetworkList returned to the running call, until n is found
    n,             \* the n variable of Deploy: the IPv4 subnet of the kind network
    start,         \* the start address of makeConfig, once computed
    end,           \* the end address of makeConfig, once computed
    creates,       \* the names Create was called with in the running call
    found,         \* what the presence check of the running call gave, per object
    atCheck,       \* the content each object had at its presence check
    \* ---- KindSpec and IxiaTGSpec ----
    hpc,           \* position inside the running method, or "idle"
    hop,           \* the method that runs or ran last
    hret,          \* what the last method returned
    hcalls,        \* methods called so far
    cmds,          \* the commands the execer ran in the running call
    kspec,         \* the KindSpec (the receiver k)
    hmissing,      \* binaries execLookPath does not resolve
    ixia,          \* the IxiaTGSpec (the receiver i) and its static file
    stdout,        \* where the execer's standard output goes
    env,           \* the DOCKER_CONFIG environment variable
    envAtCall,     \* DOCKER_CONFIG when the running method was called
    files,         \* the temporary paths that exist
    made,          \* the temporary paths created so far
    originalConfig, \* the originalConfig local variable
    hi,            \* the index of the running loop
    images,        \* the pairs of k.ContainerImages already loaded
    nodes          \* nodes.String(): what kind get nodes printed into its buffer

ovars == <<pc, op, calls, ret, missing, probed, nctl, i, now, ctxCancelled,
           tCtx, callStart, waitStart, lastWait, kClient, kc, nbuilt, ncalls>>

wvars == <<wfn, wpc, wctxDone, ch, ev, wret, nsent, doneAtRecv, nrecv, firstUnavail>>

ivars == <<incIP, incCnt, incOrig, incN, incPc>>

mvars == <<mpc, mret, mkc, dClient, cluster, mcalls, IPCount, nr, n, start, end,
           creates, found, atCheck>>

hvars == <<hpc, hop, hret, hcalls, cmds, kspec, hmissing, ixia, stdout, env, envAtCall,
           files, made, originalConfig, hi, images, nodes>>

vars == <<ovars, wvars, ivars, mvars, hvars>>

(***************************************************************************)
(* Bounds of the model.                                                    *)
(***************************************************************************)
MaxControllers == 2
MaxTicks == 5
MaxCalls == 2
MaxReplicas == 2
MaxEvents == 3
MaxCount == 3
OctetSpan == 1
MaxDeploys == 2
MaxIPCount == 2
MaxSubnets == 2
MaxHostCalls == 2
MaxRegistries == 1
MaxManifests == 1
MaxImages == 1

(***************************************************************************)
(* Program constants.                                                      *)
(***************************************************************************)
\* healthTimeout = time.Minute, in seconds
healthTimeout == 60

\* the clock advances in steps of half a healthTimeout
TickLen == healthTimeout \div 2

\* []string{"docker", "kubectl"}
RequiredBins == <<"docker", "kubectl">>

(***************************************************************************)
(* Stages: the Cluster, the Ingress, the CNI, then d.Controllers in order. *)
(***************************************************************************)
ClusterStage == 0
IngressStage == 1
CNIStage == 2
ControllerStage(j) == CNIStage + j

Stages == ClusterStage .. ControllerStage(MaxControllers)

\* a nil kubernetes.Interface
NilHandle == 0

Handles == NilHandle .. MaxCalls + 1

(***************************************************************************)
(* The objects a watch event may carry.                                    *)
(***************************************************************************)
\* d.Spec.Replicas == nil
NilReplicas == -1

Counts == 0 .. MaxReplicas

\* *appsv1.Deployment: Spec.Replicas and the five counters of Status
Deployments ==
    [kind : {"Deployment"}, SpecReplicas : {NilReplicas} \cup Counts,
     AvailableReplicas : Counts, ReadyReplicas : Counts,
     UnavailableReplicas : Counts, Replicas : Counts, UpdatedReplicas : Counts]

\* *appsv1.DaemonSet: the three counters of Status the watch reads
DaemonSets ==
    [kind : {"DaemonSet"}, NumberReady : Counts, DesiredNumberScheduled : Counts,
     NumberUnavailable : Counts]

\* the object of an Error event
StatusObject == [kind |-> "Status"]

NoObject == [kind |-> "none"]

\* one object of each kind
SomeDeployment ==
    [kind |-> "Deployment", SpecReplicas |-> NilReplicas, AvailableReplicas |-> 1,
     ReadyReplicas |-> 1, UnavailableReplicas |-> 0, Replicas |-> 1,
     UpdatedReplicas |-> 1]

SomeDaemonSet ==
    [kind |-> "DaemonSet", NumberReady |-> 1, DesiredNumberScheduled |-> 1,
     NumberUnavailable |-> 0]

\* what the event stream of a watch function may deliver: every object of the
\* watched kind, and objects of other kinds
Objects(fn) ==
    IF fn = "deploymentHealthy"
    THEN Deployments \cup {SomeDaemonSet, StatusObject}
    ELSE DaemonSets \cup {SomeDeployment, StatusObject}

(***************************************************************************)
(* Errors.  NoErr is the nil error; Pending marks a call that has not      *)
(* returned.  An error keeps the place that made it, so that two failures  *)
(* can be told apart.                                                      *)
(***************************************************************************)
NoErr == [src |-> "nil", stage |-> -1, kind |-> "nil", bins |-> <<>>]
Pending == [src |-> "pending", stage |-> -1, kind |-> "pending", bins |-> <<>>]
Err(src, stage, kind) == [src |-> src, stage |-> stage, kind |-> kind, bins |-> <<>>]

\* errs.Err() of the errlist built by checkDependencies: nil when the list is
\* empty, else one error made of every "install dependency %q to deploy"
ErrlistErr(errs) ==
    IF errs = <<>> THEN NoErr
    ELSE [src |-> "checkDependencies", stage |-> -1,
          kind |-> "MissingDependency", bins |-> errs]

\* an invocation of a component's method, with the error it returned
Invocation(stage, method, err) == [stage |-> stage, method |-> method, err |-> err]

\* The results a component's Deploy may give.
DeployResults(stage) == {NoErr, Err("Deploy", stage, "failed")}

\* a context made by context.WithTimeout, and the tCtx variable before it is set
NoCtx == [armed |-> FALSE, deadline |-> 0]

\* ctx.Done() of a context made from the caller's ctx: closed when the parent is
\* cancelled or the deadline has passed
CtxDone(c) == c.armed /\ (ctxCancelled \/ now >= c.deadline)

\* The results a component's Healthy(tCtx) may give: success, a failure of its
\* own (a closed stream, an API error), or the cancellation failure once tCtx
\* is done.
HealthyResults(stage, c) ==
    {NoErr, Err("Healthy", stage, "failed")}
        \cup (IF CtxDone(c) THEN {Err("Healthy", stage, "canceled")} ELSE {})

NoWait == [stage |-> -1, t0 |-> 0, t1 |-> 0, err |-> NoErr, parentCancelled |-> FALSE]

(***************************************************************************)
(* Deployment.checkDependencies: the loop over the required binaries.      *)
(***************************************************************************)
\* checkLoop as a fail-fast loop: it stops at the first missing binary
RECURSIVE checkLoopFailFast(_, _, _, _)
checkLoopFailFast(bins, miss, seen, errs) ==
    IF bins = <<>> \/ errs # <<>> THEN [probed |-> seen, errs |-> errs]
    ELSE LET bin == Head(bins)
         IN  checkLoopFailFast(Tail(bins), miss, Append(seen, bin),
                               IF bin \in miss THEN Append(errs, bin) ELSE errs)

RECURSIVE checkLoop(_, _, _, _)
checkLoop(bins, miss, seen, errs) ==
    IF bins = <<>> THEN [probed |-> seen, errs |-> errs]
    ELSE LET bin == Head(bins)
         IN  checkLoop(Tail(bins), miss, Append(seen, bin),
                       IF bin \in miss THEN Append(errs, bin) ELSE errs)

checkDependencies(miss) ==
    LET r == checkLoop(RequiredBins, miss, <<>>, <<>>)
    IN  [probed |-> r.probed, err |-> ErrlistErr(r.errs)]

\* WithTimeout with one budget for the whole call: the deadline is counted from
\* the moment the Deployment method was called
WithTimeoutFromCallStart(d) == [armed |-> TRUE, deadline |-> callStart + d]

\* context.WithTimeout(ctx, d), made at the present moment
WithTimeout(d) == [armed |-> TRUE, deadline |-> now + d]

(***************************************************************************)
(* Returning from a Deployment method.  The deferred cancel() calls run,   *)
(* so no timeout context outlives the call.                                *)
(***************************************************************************)
Return(e) ==
    /\ pc' = "idle"
    /\ ret' = e
    /\ tCtx' = NoCtx
    /\ ncalls' = ncalls + 1

\* if err != nil { return err }, else go on at next
ReturnIfErr(e, next) ==
    IF e # NoErr THEN Return(e)
    ELSE /\ pc' = next
         /\ UNCHANGED <<ret, tCtx, ncalls>>

\* the component's method is invoked and returns e
Invoke(stage, method, e) == calls' = Append(calls, Invocation(stage, method, e))

(***************************************************************************)
(* The caller and the environment.                                         *)
(***************************************************************************)
Call(method, first) ==
    /\ pc = "idle"
    /\ ncalls < MaxCalls
    /\ pc' = first
    /\ op' = method
    /\ calls' = <<>>
    /\ ret' = Pending
    /\ probed' = <<>>
    /\ i' = 0
    /\ ctxCancelled' = FALSE
    /\ tCtx' = NoCtx
    /\ callStart' = now
    /\ waitStart' = 0
    /\ lastWait' = NoWait
    /\ kClient' = NilHandle
    /\ UNCHANGED <<missing, nctl, now, kc, nbuilt, ncalls>>

CallDeploy == Call("Deploy", "checkDependencies")

CallHealthy == Call("Healthy", "Cluster.Healthy")

CallDelete == Call("Delete", "Cluster.Delete")

\* time passes
Tick ==
    /\ now < MaxTicks * TickLen
    /\ now' = now + TickLen
    /\ UNCHANGED <<pc, op, calls, ret, missing, probed, nctl, i, ctxCancelled,
                   tCtx, callStart, waitStart, lastWait, kClient, kc, nbuilt, ncalls>>

\* the caller cancels the ctx it passed (or that ctx's own deadline passes)
CancelCtx ==
    /\ pc # "idle"
    /\ ~ctxCancelled
    /\ ctxCancelled' = TRUE
    /\ UNCHANGED <<pc, op, calls, ret, missing, probed, nctl, i, now,
                   tCtx, callStart, waitStart, lastWait, kClient, kc, nbuilt, ncalls>>

(***************************************************************************)
(* Steps shared by the stages of Deploy and Healthy.                       *)
(***************************************************************************)
\* StageDeploy that logs the error and goes on
StageDeployIgnoringErr(at, stage, next) ==
    /\ pc = at
    /\ \E e \in DeployResults(stage) : Invoke(stage, "Deploy", e)
    /\ pc' = next
    /\ UNCHANGED <<op, ret, tCtx, ncalls, missing, probed, nctl, i, now,
                   ctxCancelled, callStart, waitStart, lastWait, kClient, kc, nbuilt>>

\* x.Deploy(ctx) of the component of a stage
StageDeploy(at, stage, next) ==
    /\ pc = at
    /\ \E e \in DeployResults(stage) :
          /\ Invoke(stage, "Deploy", e)
          /\ ReturnIfErr(e, next)
    /\ UNCHANGED <<op, missing, probed, nctl, i, now, ctxCancelled, callStart,
                   waitStart, lastWait, kClient, kc, nbuilt>>

\* SetKClient with a handle built for the component alone
StageSetKClientFresh(at, stage, next) ==
    /\ pc = at
    /\ Invoke(stage, "SetKClient", NoErr)
    /\ kc' = [kc EXCEPT ![stage] = nbuilt + 1]
    /\ nbuilt' = nbuilt + 1
    /\ pc' = next
    /\ UNCHANGED <<op, ret, missing, probed, nctl, i, now, ctxCancelled, tCtx,
                   callStart, waitStart, lastWait, kClient, ncalls>>

\* x.SetKClient(kClient)
StageSetKClient(at, stage, next) ==
    /\ pc = at
    /\ Invoke(stage, "SetKClient", NoErr)
    /\ kc' = [kc EXCEPT ![stage] = kClient]
    /\ pc' = next
    /\ UNCHANGED <<op, ret, missing, probed, nctl, i, now, ctxCancelled, tCtx,
                   callStart, waitStart, lastWait, kClient, nbuilt, ncalls>>

\* tCtx, cancel := context.WithTimeout(ctx, healthTimeout); defer cancel()
StageWithTimeout(at, next) ==
    /\ pc = at
    /\ tCtx' = WithTimeout(healthTimeout)
    /\ waitStart' = now
    /\ pc' = next
    /\ UNCHANGED <<op, calls, ret, missing, probed, nctl, i, now, ctxCancelled,
                   callStart, lastWait, kClient, kc, nbuilt, ncalls>>

\* StageHealthy that tries again: after a failure the wait is started anew
StageHealthyRetrying(at, stage, next) ==
    /\ pc = at
    /\ \E e \in HealthyResults(stage, tCtx) :
          /\ Invoke(stage, "Healthy", e)
          /\ lastWait' = [stage |-> stage, t0 |-> waitStart, t1 |-> now,
                          err |-> e, parentCancelled |-> ctxCancelled]
          /\ pc' = IF e # NoErr THEN at ELSE next
    /\ UNCHANGED <<op, ret, tCtx, ncalls, missing, probed, nctl, i, now,
                   ctxCancelled, callStart, waitStart, kClient, kc, nbuilt>>

\* StageHealthy that does not wait for the result: the next stage starts whatever
\* the readiness check gave
StageHealthyIgnoringErr(at, stage, next) ==
    /\ pc = at
    /\ \E e \in HealthyResults(stage, tCtx) :
          /\ Invoke(stage, "Healthy", e)
          /\ lastWait' = [stage |-> stage, t0 |-> waitStart, t1 |-> now,
                          err |-> e, parentCancelled |-> ctxCancelled]
    /\ pc' = next
    /\ UNCHANGED <<op, ret, tCtx, ncalls, missing, probed, nctl, i, now,
                   ctxCancelled, callStart, waitStart, kClient, kc, nbuilt>>

\* x.Healthy(tCtx) returns.  The components of this repository open a watch on
\* their kClient: with a nil handle that call panics.
StageHealthy(at, stage, next) ==
    /\ pc = at
    /\ IF kc[stage] = NilHandle
       THEN /\ Invoke(stage, "Healthy", Err("Healthy", stage, "panic"))
            /\ pc' = "panicked"
            /\ ret' = Err("Healthy", stage, "panic")
            /\ tCtx' = NoCtx
            /\ ncalls' = ncalls + 1
            /\ UNCHANGED lastWait
       ELSE \E e \in HealthyResults(stage, tCtx) :
               /\ Invoke(stage, "Healthy", e)
               /\ lastWait' = [stage |-> stage, t0 |-> waitStart, t1 |-> now,
                               err |-> e, parentCancelled |-> ctxCancelled]
               /\ ReturnIfErr(e, next)
    /\ UNCHANGED <<op, missing, probed, nctl, i, now, ctxCancelled, callStart,
                   waitStart, kClient, kc, nbuilt>>

(***************************************************************************)
(* Deployment.Deploy                                                       *)
(***************************************************************************)
\* if err := d.checkDependencies(); err != nil { return err }
DeployCheckDependencies ==
    /\ pc = "checkDependencies"
    /\ LET r == checkDependencies(missing)
       IN  /\ probed' = r.probed
           /\ ReturnIfErr(r.err, "Cluster.Deploy")
    /\ UNCHANGED <<op, calls, missing, nctl, i, now, ctxCancelled, callStart,
                   waitStart, lastWait, kClient, kc, nbuilt>>

\* if err := d.Cluster.Deploy(ctx); err != nil { return err }
DeployCluster == StageDeploy("Cluster.Deploy", ClusterStage, "BuildConfigFromFlags")

\* rCfg, err := clientcmd.BuildConfigFromFlags("", kubecfg)
DeployBuildConfig ==
    /\ pc = "BuildConfigFromFlags"
    /\ \E e \in {NoErr, Err("BuildConfigFromFlags", ClusterStage, "failed")} :
          ReturnIfErr(e, "NewForConfig")
    /\ UNCHANGED <<op, calls, missing, probed, nctl, i, now, ctxCancelled,
                   callStart, waitStart, lastWait, kClient, kc, nbuilt>>

\* kClient, err := kubernetes.NewForConfig(rCfg)
DeployNewForConfig ==
    /\ pc = "NewForConfig"
    /\ \E e \in {NoErr, Err("NewForConfig", ClusterStage, "failed")} :
          /\ ReturnIfErr(e, "Ingress.SetKClient")
          /\ IF e = NoErr
             THEN kClient' = nbuilt + 1 /\ nbuilt' = nbuilt + 1
             ELSE UNCHANGED <<kClient, nbuilt>>
    /\ UNCHANGED <<op, calls, missing, probed, nctl, i, now, ctxCancelled,
                   callStart, waitStart, lastWait, kc>>

DeployIngressSetKClient ==
    StageSetKClient("Ingress.SetKClient", IngressStage, "Ingress.Deploy")

DeployIngressDeploy == StageDeploy("Ingress.Deploy", IngressStage, "Ingress.WithTimeout")

DeployIngressWithTimeout == StageWithTimeout("Ingress.WithTimeout", "Ingress.Healthy")

DeployIngressHealthy == StageHealthy("Ingress.Healthy", IngressStage, "CNI.Deploy")

DeployCNIDeploy == StageDeploy("CNI.Deploy", CNIStage, "CNI.SetKClient")

DeployCNISetKClient == StageSetKClient("CNI.SetKClient", CNIStage, "CNI.WithTimeout")

DeployCNIWithTimeout == StageWithTimeout("CNI.WithTimeout", "CNI.Healthy")

DeployCNIHealthy == StageHealthy("CNI.Healthy", CNIStage, "Controllers")

\* for _, c := range d.Controllers { ... }; return nil
DeployControllers ==
    /\ pc = "Controllers"
    /\ IF i < nctl
       THEN /\ i' = i + 1
            /\ pc' = "Controller.Deploy"
            /\ UNCHANGED <<ret, tCtx, ncalls>>
       ELSE /\ Return(NoErr)
            /\ UNCHANGED i
    /\ UNCHANGED <<op, calls, missing, probed, nctl, now, ctxCancelled,
                   callStart, waitStart, lastWait, kClient, kc, nbuilt>>

DeployControllerDeploy ==
    StageDeploy("Controller.Deploy", ControllerStage(i), "Controller.SetKClient")

DeployControllerSetKClient ==
    StageSetKClient("Controller.SetKClient", ControllerStage(i), "Controller.WithTimeout")

DeployControllerWithTimeout ==
    StageWithTimeout("Controller.WithTimeout", "Controller.Healthy")

DeployControllerHealthy ==
    StageHealthy("Controller.Healthy", ControllerStage(i), "Controllers")

(***************************************************************************)
(* Deployment.Delete                                                       *)
(***************************************************************************)
\* if err := d.Cluster.Delete(); err != nil { return err }; return nil
DeleteCluster ==
    /\ pc = "Cluster.Delete"
    /\ \E e \in {NoErr, Err("Delete", ClusterStage, "failed")} :
          /\ Invoke(ClusterStage, "Delete", e)
          /\ Return(e)
    /\ UNCHANGED <<op, missing, probed, nctl, i, now, ctxCancelled, callStart,
                   waitStart, lastWait, kClient, kc, nbuilt>>

(***************************************************************************)
(* Deployment.Healthy                                                      *)
(***************************************************************************)
\* if err := d.Cluster.Healthy(); err != nil { return err }
HealthyCluster ==
    /\ pc = "Cluster.Healthy"
    /\ \E e \in {NoErr, Err("Healthy", ClusterStage, "failed")} :
          /\ Invoke(ClusterStage, "Healthy", e)
          /\ ReturnIfErr(e, "H.Ingress.WithTimeout")
    /\ UNCHANGED <<op, missing, probed, nctl, i, now, ctxCancelled, callStart,
                   waitStart, lastWait, kClient, kc, nbuilt>>

HealthyIngressWithTimeout == StageWithTimeout("H.Ingress.WithTimeout", "H.Ingress.Healthy")

HealthyIngressHealthy == StageHealthy("H.Ingress.Healthy", IngressStage, "H.CNI.WithTimeout")

HealthyCNIWithTimeout == StageWithTimeout("H.CNI.WithTimeout", "H.CNI.Healthy")

HealthyCNIHealthy == StageHealthy("H.CNI.Healthy", CNIStage, "H.Controllers")

\* Healthy that leaves the controllers out: it returns nil after the CNI
HealthyControllersSkipped ==
    /\ pc = "H.Controllers"
    /\ Return(NoErr)
    /\ UNCHANGED <<op, calls, missing, probed, nctl, i, now, ctxCancelled,
                   callStart, waitStart, lastWait, kClient, kc, nbuilt>>

\* for _, c := range d.Controllers { ... }; return nil
HealthyControllers ==
    /\ pc = "H.Controllers"
    /\ IF i < nctl
       THEN /\ i' = i + 1
            /\ pc' = "H.Controller.WithTimeout"
            /\ UNCHANGED <<ret, tCtx, ncalls>>
       ELSE /\ Return(NoErr)
            /\ UNCHANGED i
    /\ UNCHANGED <<op, calls, missing, probed, nctl, now, ctxCancelled,
                   callStart, waitStart, lastWait, kClient, kc, nbuilt>>

HealthyControllerWithTimeout ==
    StageWithTimeout("H.Controller.WithTimeout", "H.Controller.Healthy")

HealthyControllerHealthy ==
    StageHealthy("H.Controller.Healthy", ControllerStage(i), "H.Controllers")

(***************************************************************************)
(* inc: cnt times, add one to the address, from the last byte upward.      *)
(***************************************************************************)
\* the values of a byte
ByteRange == 256

\* the offset of the pool in its subnet: inc(start, 50)
poolOffset == 50

\* the inner loop without the carry: only the last byte is incremented
RECURSIVE incOnceNoCarry(_, _)
incOnceNoCarry(ip, j) ==
    IF j < 1 THEN ip
    ELSE [ip EXCEPT ![j] = (ip[j] + 1) % ByteRange]

\* for j := len(ip) - 1; j >= 0; j-- { ip[j]++; if ip[j] > 0 { break } }
\* from index j (1-based) down; ip[j]++ wraps a byte from 255 to 0
RECURSIVE incOnce(_, _)
incOnce(ip, j) ==
    IF j < 1 THEN ip
    ELSE LET next == [ip EXCEPT ![j] = (ip[j] + 1) % ByteRange]
         IN  IF next[j] > 0 THEN next ELSE incOnce(next, j - 1)

\* for cnt > 0 { <inner loop>; cnt-- }: one turn of the outer loop
IncLoop ==
    /\ incPc = "loop"
    /\ incCnt > 0
    /\ incIP' = incOnce(incIP, Len(incIP))
    /\ incCnt' = incCnt - 1
    /\ UNCHANGED <<incOrig, incN, incPc>>

\* cnt > 0 is false: inc returns
IncReturn ==
    /\ incPc = "loop"
    /\ ~(incCnt > 0)
    /\ incPc' = "done"
    /\ UNCHANGED <<incIP, incCnt, incOrig, incN>>

\* the bytes tried: the lowest and the highest values
Octets == (0 .. OctetSpan) \cup (ByteRange - 1 - OctetSpan .. ByteRange - 1)

\* the counts tried: small ones, the pool offset, and one full turn of a byte
IncCounts == (0 .. MaxCount) \cup {poolOffset, ByteRange}

IdleInc ==
    /\ incIP = <<>>
    /\ incCnt = 0
    /\ incOrig = <<>>
    /\ incN = 0
    /\ incPc = "idle"

(***************************************************************************)
(* MetalLBSpec.Deploy against a cluster holding the "memberlist" secret    *)
(* and the "config" config-map of namespace metallb-system.                *)
(***************************************************************************)
\* the two objects Deploy looks for
MetalLBObjects == {"memberlist", "config"}

\* the content of an object: the Deploy call that made it (0: it was there
\* before the first call) and its data; Absent when the object does not exist
Absent == [by |-> -1, data |-> <<>>]
Preexisting == [by |-> 0, data |-> <<>>]

\* StringData{"secretkey": base64 of 16 random bytes}: a key of the call's own
NewSecret(call) == [by |-> call, data |-> <<>>]

\* Data{"config": string(b)} of the marshalled metalLBConfig
NewConfigMap(call, config) == [by |-> call, data |-> config]

MetalLBErr(kind) == Err("MetalLBSpec.Deploy", IngressStage, kind)

\* execer.Exec("kubectl", "apply", "-f", file)
ApplyResults(file) == {NoErr, MetalLBErr("kubectl apply -f " \o file)}

\* Get(ctx, name): the object and nil, or an error; an object that does not
\* exist is never returned
GetResults(name) ==
    IF cluster[name] = Absent
    THEN {MetalLBErr("NotFound"), MetalLBErr("Get failed")}
    ELSE {NoErr, MetalLBErr("Get failed")}

\* Create(ctx, object): refused when the object exists
CreateResults(name) ==
    IF cluster[name] = Absent
    THEN {NoErr, MetalLBErr("Create failed")}
    ELSE {MetalLBErr("AlreadyExists"), MetalLBErr("Create failed")}

\* the presence check taken as always failing: the creation is always entered
AfterGetAlwaysCreate(err, create, skip) == create

\* if err != nil { <create> }: the creation is entered on any error of Get
AfterGet(err, create, skip) == IF err # NoErr THEN create ELSE skip

(***************************************************************************)
(* The docker networks and their subnets.                                  *)
(***************************************************************************)
\* an IPAM subnet string: whether it parses as a CIDR, its address, its prefix
Subnet(valid, ip, bits) == [valid |-> valid, ip |-> ip, bits |-> bits]

BadSubnet == Subnet(FALSE, <<>>, 0)

\* fc00:f853:ccd:e793::/64
IPv6Subnet == Subnet(TRUE, <<252, 0, 248, 83, 12, 205, 231, 147, 0, 0, 0, 0, 0, 0, 0, 0>>, 64)

\* 172.18.0.0/16, 10.0.255.241/28 whose pool crosses an octet, and
\* 255.255.255.240/28 whose pool passes the last address
IPv4Subnets ==
    {Subnet(TRUE, <<172, 18, 0, 0>>, 16), Subnet(TRUE, <<10, 0, 255, 241>>, 28),
     Subnet(TRUE, <<255, 255, 255, 240>>, 28)}

\* the values of m.IPCount tried: a negative one, the small ones, and ten
IPCounts == (-1 .. MaxIPCount) \cup {10}

Subnets == {BadSubnet, IPv6Subnet} \cup IPv4Subnets

RECURSIVE SeqsUpTo(_, _)
SeqsUpTo(S, len) ==
    IF len = 0 THEN {<<>>}
    ELSE LET shorter == SeqsUpTo(S, len - 1)
         IN  shorter \cup {Append(s, x) : s \in shorter, x \in S}

\* network.IPAM.Config of the network named "kind"
IPAMConfigs == SeqsUpTo(Subnets, MaxSubnets)

Network(name, config) == [Name |-> name, IPAMConfig |-> config]

\* a network of another name, with an IPv4 subnet of its own: 192.168.0.0/24
OtherNetwork == Network("bridge", <<Subnet(TRUE, <<192, 168, 0, 0>>, 24)>>)

\* var network dtypes.NetworkResource
ZeroNetwork == Network("", <<>>)

\* what NetworkList may return: no network, the kind network alone, or the
\* kind network before or after another one
NetworkLists ==
    {<<>>, <<OtherNetwork>>}
        \cup {<<Network("kind", c)>> : c \in IPAMConfigs}
        \cup {<<OtherNetwork, Network("kind", c)>> : c \in IPAMConfigs}
        \cup {<<Network("kind", c), OtherNetwork>> : c \in IPAMConfigs}

Min(S) == CHOOSE x \in S : \A y \in S : x <= y

\* the first network of the list, whatever its name
FindFirst(list) == IF list = <<>> THEN ZeroNetwork ELSE list[1]

\* for _, v := range nr { if v.Name == "kind" { network = v; break } }
FindKind(list) ==
    LET hits == {k \in 1 .. Len(list) : list[k].Name = "kind"}
    IN  IF hits = {} THEN ZeroNetwork ELSE list[Min(hits)]

\* the nr variable: not yet assigned, or the list NetworkList returned
NoList == [listed |-> FALSE, networks |-> <<>>]
Listed(list) == [listed |-> TRUE, networks |-> list]

\* the byte of index j (1-based) of a mask of bits leading ones
MaskByte(b, bits, j) ==
    LET ones == bits - 8 * (j - 1)
    IN  IF ones >= 8 THEN b
        ELSE IF ones <= 0 THEN 0
        ELSE b - (b % (2 ^ (8 - ones)))

\* net.ParseCIDR: nil and an error, or the network whose IP is the address
\* masked by the prefix (4 bytes for an IPv4 subnet, 16 for an IPv6 one)
NilNet == [IP |-> <<>>, bits |-> -1]

ParseCIDR(s) ==
    IF ~s.valid THEN [ipNet |-> NilNet, err |-> MetalLBErr("ParseCIDR")]
    ELSE [ipNet |-> [IP |-> [j \in 1 .. Len(s.ip) |-> MaskByte(s.ip[j], s.bits, j)],
                     bits |-> s.bits],
          err |-> NoErr]

\* ipNet.IP.To4() != nil for the addresses ParseCIDR gives
IsIPv4(ip) == Len(ip) = 4

\* the loop over network.IPAM.Config: it ends at the first subnet that does
\* not parse (Deploy returns the error) or that is IPv4 (n is set)
FirstIPv4Net(config) ==
    LET stops == {k \in 1 .. Len(config) :
                      \/ ParseCIDR(config[k]).err # NoErr
                      \/ IsIPv4(ParseCIDR(config[k]).ipNet.IP)}
    IN  IF stops = {}
        THEN [ipNet |-> NilNet, err |-> MetalLBErr("failed to find kind ipv4 docker net")]
        ELSE ParseCIDR(config[Min(stops)])

\* fmt.Sprintf("%s", ip) of a 4-byte address
IPString(ip) ==
    ToString(ip[1]) \o "." \o ToString(ip[2]) \o "." \o ToString(ip[3])
        \o "." \o ToString(ip[4])

\* the metalLBConfig makeConfig returns
PoolConfig(s, e) ==
    <<[Name |-> "default", Protocol |-> "layer2",
       Addresses |-> <<IPString(s) \o " - " \o IPString(e)>>]>>

(***************************************************************************)
(* MetalLBSpec.Deploy, one action per call it makes.                       *)
(***************************************************************************)
MetalLBReturn(e) ==
    /\ mpc' = "returned"
    /\ mret' = e

MetalLBReturnIfErr(e, next) ==
    IF e # NoErr THEN MetalLBReturn(e)
    ELSE /\ mpc' = next
         /\ UNCHANGED mret

\* Deploy is called on the MetalLBSpec
MetalLBCall ==
    /\ mpc \in {"idle", "returned"}
    /\ mcalls < MaxDeploys
    /\ mcalls' = mcalls + 1
    /\ mpc' = "dClient"
    /\ mret' = Pending
    /\ creates' = <<>>
    /\ found' = [o \in MetalLBObjects |-> "unchecked"]
    /\ atCheck' = [o \in MetalLBObjects |-> Absent]
    /\ n' = NilNet
    /\ start' = <<>>
    /\ end' = <<>>
    /\ nr' = NoList
    /\ UNCHANGED <<mkc, dClient, cluster, IPCount>>

\* if m.dClient == nil { m.dClient, err = dclient.NewClientWithOpts(...) }
MetalLBNewClient ==
    /\ mpc = "dClient"
    /\ IF dClient
       THEN /\ mpc' = "namespace"
            /\ UNCHANGED <<mret, dClient>>
       ELSE \E e \in {NoErr, MetalLBErr("NewClientWithOpts")} :
                /\ dClient' = (e = NoErr)
                /\ MetalLBReturnIfErr(e, "namespace")
    /\ UNCHANGED <<mkc, cluster, mcalls, IPCount, nr, n, start, end, creates, found, atCheck>>

\* kubectl apply -f namespace.yaml
MetalLBApplyNamespace ==
    /\ mpc = "namespace"
    /\ \E e \in ApplyResults("namespace.yaml") : MetalLBReturnIfErr(e, "GetSecret")
    /\ UNCHANGED <<mkc, dClient, cluster, mcalls, IPCount, nr, n, start, end, creates,
                   found, atCheck>>

\* m.kClient.CoreV1().<kind>(...).Get(ctx, name, ...) and the if err != nil
\* after it; a nil m.kClient panics
PresenceCheck(at, name, create, skip) ==
    /\ mpc = at
    /\ IF mkc = NilHandle
       THEN /\ mpc' = "panicked"
            /\ UNCHANGED <<found, atCheck>>
       ELSE \E e \in GetResults(name) :
                /\ found' = [found EXCEPT ![name] = IF e = NoErr THEN "found" ELSE "missing"]
                /\ atCheck' = [atCheck EXCEPT ![name] = cluster[name]]
                /\ mpc' = AfterGet(e, create, skip)
    /\ UNCHANGED <<mret, mkc, dClient, cluster, mcalls, IPCount, nr, n, start, end, creates>>

\* m.kClient.CoreV1().<kind>(...).Create(ctx, object, ...)
CreateObject(at, name, content, next) ==
    /\ mpc = at
    /\ creates' = Append(creates, name)
    /\ \E e \in CreateResults(name) :
           /\ cluster' = IF e = NoErr THEN [cluster EXCEPT ![name] = content] ELSE cluster
           /\ IF next = "returned" THEN MetalLBReturn(e) ELSE MetalLBReturnIfErr(e, next)
    /\ UNCHANGED <<mkc, dClient, mcalls, IPCount, nr, n, start, end, found, atCheck>>

MetalLBGetSecret == PresenceCheck("GetSecret", "memberlist", "CreateSecret", "pods")

MetalLBCreateSecret == CreateObject("CreateSecret", "memberlist", NewSecret(mcalls), "pods")

\* kubectl apply -f metallb.yaml
MetalLBApplyPods ==
    /\ mpc = "pods"
    /\ \E e \in ApplyResults("metallb.yaml") : MetalLBReturnIfErr(e, "GetConfig")
    /\ UNCHANGED <<mkc, dClient, cluster, mcalls, IPCount, nr, n, start, end, creates,
                   found, atCheck>>

\* the config-map is there: return nil
MetalLBGetConfig == PresenceCheck("GetConfig", "config", "NetworkList", "return")

MetalLBReturnNil ==
    /\ mpc = "return"
    /\ MetalLBReturn(NoErr)
    /\ UNCHANGED <<mkc, dClient, cluster, mcalls, IPCount, nr, n, start, end, creates,
                   found, atCheck>>

\* m.dClient.NetworkList, the search for the network named "kind" and the
\* loop over its subnets
MetalLBNetworkList ==
    /\ mpc = "NetworkList"
    /\ \/ MetalLBReturn(MetalLBErr("NetworkList")) /\ UNCHANGED <<n, nr>>
       \/ \E list \in NetworkLists :
              LET network == FindKind(list)
                  r == FirstIPv4Net(network.IPAMConfig)
              IN  /\ nr' = Listed(list)
                  /\ n' = r.ipNet
                  /\ MetalLBReturnIfErr(r.err, "makeConfig")
    /\ UNCHANGED <<mkc, dClient, cluster, mcalls, IPCount, start, end, creates,
                   found, atCheck>>

\* a call of inc(ip, cnt) on a copy made by makeConfig
CallInc(ip, cnt) ==
    /\ incIP' = ip
    /\ incCnt' = cnt
    /\ incOrig' = ip
    /\ incN' = cnt
    /\ incPc' = "loop"

\* makeConfig: start := copy of n.IP; inc(start, 50); nr is read no more
MakeConfigStart ==
    /\ mpc = "makeConfig"
    /\ CallInc(n.IP, poolOffset)
    /\ mpc' = "inc(start)"
    /\ nr' = NoList
    /\ UNCHANGED <<mret, mkc, dClient, cluster, mcalls, IPCount, n, start, end,
                   creates, found, atCheck>>

\* makeConfig with end made from the subnet's address instead of start
MakeConfigEndFromBase ==
    /\ mpc = "inc(start)"
    /\ incPc = "done"
    /\ start' = incIP
    /\ CallInc(n.IP, IPCount)
    /\ mpc' = "inc(end)"
    /\ UNCHANGED <<mret, mkc, dClient, cluster, mcalls, IPCount, nr, n, end, creates,
                   found, atCheck>>

\* makeConfig: end := copy of start; inc(end, count)
MakeConfigEnd ==
    /\ mpc = "inc(start)"
    /\ incPc = "done"
    /\ start' = incIP
    /\ CallInc(incIP, IPCount)
    /\ mpc' = "inc(end)"
    /\ UNCHANGED <<mret, mkc, dClient, cluster, mcalls, IPCount, nr, n, end, creates,
                   found, atCheck>>

\* makeConfig returns the pool
MakeConfigReturn ==
    /\ mpc = "inc(end)"
    /\ incPc = "done"
    /\ end' = incIP
    /\ incPc' = "idle"
    /\ mpc' = "CreateConfig"
    /\ UNCHANGED <<incIP, incCnt, incOrig, incN>>
    /\ UNCHANGED <<mret, mkc, dClient, cluster, mcalls, IPCount, nr, n, start, creates,
                   found, atCheck>>

\* yaml.Marshal(config) and the Create of the config-map; return nil after it
MetalLBCreateConfig ==
    CreateObject("CreateConfig", "config", NewConfigMap(mcalls, PoolConfig(start, end)),
                 "returned")

\* a MetalLBSpec on which nothing is called
IdleMetalLB ==
    /\ mpc = "off"
    /\ mret = NoErr
    /\ mkc = NilHandle
    /\ dClient = FALSE
    /\ cluster = [o \in MetalLBObjects |-> Absent]
    /\ mcalls = 0
    /\ IPCount = 0
    /\ nr = NoList
    /\ n = NilNet
    /\ start = <<>>
    /\ end = <<>>
    /\ creates = <<>>
    /\ found = [o \in MetalLBObjects |-> "unchecked"]
    /\ atCheck = [o \in MetalLBObjects |-> Absent]

(***************************************************************************)
(* The components that act on the host: KindSpec and IxiaTGSpec.  They run *)
(* commands through the process-wide execer, whose standard output can be  *)
(* pointed at a buffer, and they use the process environment and temporary *)
(* files.                                                                  *)
(***************************************************************************)
\* a destination of the execer's standard output: log.StandardLogger().Out, or
\* the token or nodes buffer of the call of that number
Sink(buf, call) == [buf |-> buf, call |-> call]

\* logOut
DefaultSink == Sink("logOut", 0)

\* the state of an environment variable: unset, or set to a value
Unset == [set |-> FALSE, value |-> ""]
SetTo(v) == [set |-> TRUE, value |-> v]

\* os.Getenv: the value, "" when the variable is not set
Getenv(var) == IF var.set THEN var.value ELSE ""

\* defer os.Setenv(dockerConfigEnvVar, originalConfig): the variable is set,
\* to "" when it was not set before
RestoreEnv(v) == SetTo(v)

\* os.MkdirTemp("", "kne_kind_docker") and os.CreateTemp("", "ixiatg-configmap-*.yaml"):
\* a fresh path for every call
TempDockerDir(call) == "kne_kind_docker" \o ToString(call)
TempConfigMap(call) == "ixiatg-configmap-" \o ToString(call) \o ".yaml"

\* the names of the registries, manifests and images of a KindSpec
Registry(j) == "registry" \o ToString(j)
Manifest(j) == "manifest" \o ToString(j) \o ".yaml"
ImageSource(j) == "source" \o ToString(j)
ImageDest(j) == "dest" \o ToString(j)

\* the KindSpecs tried
KindSpecs ==
    [Name : {"", "kne"}, Recycle : BOOLEAN,
     GoogleArtifactRegistries : 0 .. MaxRegistries,
     AdditionalManifests : 0 .. MaxManifests,
     ContainerImages : 0 .. MaxImages]

\* GetName
GetName(spec) == IF spec.Name # "" THEN spec.Name ELSE "kind"

\* what `kind get nodes` may print: nothing, or node names ended by newlines
\* or parted by spaces
NodeOutputs ==
    {<<>>,
     <<"node1", "\n">>,
     <<"node1", "\n", "node2", "\n">>,
     <<"node1", " ", "node2", "\n">>}

\* strings.Split(s, " "): the pieces between the spaces
RECURSIVE Split(_, _, _)
Split(s, piece, done) ==
    IF s = <<>> THEN Append(done, piece)
    ELSE IF Head(s) = " " THEN Split(Tail(s), <<>>, Append(done, piece))
    ELSE Split(Tail(s), Append(piece, Head(s)), done)

\* strings.TrimSuffix(node, "\n")
TrimSuffix(piece) ==
    IF piece # <<>> /\ piece[Len(piece)] = "\n"
    THEN SubSeq(piece, 1, Len(piece) - 1)
    ELSE piece

\* the characters of a piece as one string
RECURSIVE Concat(_)
Concat(piece) == IF piece = <<>> THEN "" ELSE Head(piece) \o Concat(Tail(piece))

\* the node names the loop of setupGoogleArtifactRegistryAccess goes over
NodesOf(output) ==
    LET pieces == Split(output, <<>>, <<>>)
    IN  [j \in 1 .. Len(pieces) |-> Concat(TrimSuffix(pieces[j]))]

HostErr(src, kind) == Err(src, ClusterStage, kind)

\* fmt.Errorf("...: %w", err)
Wrap(text, e) == IF e = NoErr THEN NoErr ELSE [e EXCEPT !.src = text]

\* execer.Exec(command): nil or an error
ExecResults == {NoErr, HostErr("Exec", "failed")}

\* the record of a command the execer ran: its words, where its standard
\* output went, and what Exec returned
Ran(command, e) == [cmd |-> command, out |-> stdout, err |-> e]

Exec(command, e) == cmds' = Append(cmds, Ran(command, e))

\* the words "--name", k.Name when k.Name is not empty
NameArgs(spec) == IF spec.Name # "" THEN <<"--name", spec.Name>> ELSE <<>>

(***************************************************************************)
(* Calls and returns of the host components.                               *)
(***************************************************************************)
HostReturn(e) ==
    /\ hpc' = "idle"
    /\ hret' = e

HostReturnIfErr(e, next) ==
    IF e # NoErr THEN HostReturn(e)
    ELSE /\ hpc' = next
         /\ UNCHANGED hret

HostCall(method, first) ==
    /\ hpc = "idle"
    /\ hcalls < MaxHostCalls
    /\ hcalls' = hcalls + 1
    /\ hop' = method
    /\ hpc' = first
    /\ hret' = Pending
    /\ cmds' = <<>>
    /\ hi' = 0
    /\ envAtCall' = env
    /\ images' = {}
    /\ nodes' = <<>>
    /\ originalConfig' = ""
    /\ UNCHANGED <<kspec, hmissing, ixia, stdout, env, files, made>>

CallKindDeploy == HostCall("KindSpec.Deploy", "checkDependencies")

CallKindDelete == HostCall("KindSpec.Delete", "delete")

CallKindHealthy == HostCall("KindSpec.Healthy", "cluster-info")

CallIxiaDeploy == HostCall("IxiaTGSpec.Deploy", "operator")

(***************************************************************************)
(* KindSpec.checkDependencies and KindSpec.Deploy.                         *)
(***************************************************************************)
\* bins: "kind", and "gcloud" when registries are configured
KindBins(spec) ==
    IF spec.GoogleArtifactRegistries # 0 THEN <<"kind", "gcloud">> ELSE <<"kind">>

KindCheckDependencies ==
    /\ hop = "KindSpec.Deploy"
    /\ hpc = "checkDependencies"
    /\ HostReturnIfErr(ErrlistErr(checkLoop(KindBins(kspec), hmissing, <<>>, <<>>).errs),
                       IF kspec.Recycle THEN "recycle" ELSE "create")
    /\ UNCHANGED <<hop, hcalls, cmds, kspec, hmissing, ixia, stdout, env, envAtCall, files,
                   made, originalConfig, hi, images, nodes>>

\* the probe with its result ignored: the creation always follows
KindRecycleIgnoringProbe ==
    /\ hop = "KindSpec.Deploy"
    /\ hpc = "recycle"
    /\ \E e \in ExecResults :
           /\ Exec(<<"kubectl", "cluster-info", "--context", "kind-" \o kspec.Name>>, e)
           /\ hpc' = "create"
           /\ UNCHANGED hret
    /\ UNCHANGED <<hop, hcalls, kspec, hmissing, ixia, stdout, env, envAtCall, files, made,
                   originalConfig, hi, images, nodes>>

\* if k.Recycle: kubectl cluster-info --context kind-<k.Name>; return nil when
\* it succeeds, go on to the creation when it fails
KindRecycle ==
    /\ hop = "KindSpec.Deploy"
    /\ hpc = "recycle"
    /\ \E e \in ExecResults :
           /\ Exec(<<"kubectl", "cluster-info", "--context", "kind-" \o kspec.Name>>, e)
           /\ IF e = NoErr THEN HostReturn(NoErr)
              ELSE hpc' = "create" /\ UNCHANGED hret
    /\ UNCHANGED <<hop, hcalls, kspec, hmissing, ixia, stdout, env, envAtCall, files, made,
                   originalConfig, hi, images, nodes>>

\* where Deploy goes after the manifest of index j
AfterManifest(spec, j) ==
    IF j < spec.AdditionalManifests THEN "manifest"
    ELSE IF spec.GoogleArtifactRegistries # 0 THEN "MkdirTemp"
    ELSE IF spec.ContainerImages # 0 THEN "pull"
    ELSE "return"

\* kind create cluster [--name k.Name] ...
KindCreate ==
    /\ hop = "KindSpec.Deploy"
    /\ hpc = "create"
    /\ \E e \in ExecResults :
           /\ Exec(<<"kind", "create", "cluster">> \o NameArgs(kspec), e)
           /\ HostReturnIfErr(Wrap("failed to create cluster", e), AfterManifest(kspec, 0))
    /\ UNCHANGED <<hop, hcalls, kspec, hmissing, ixia, stdout, env, envAtCall, files, made,
                   originalConfig, hi, images, nodes>>

\* for _, s := range k.AdditionalManifests: kubectl apply -f s
KindManifest ==
    /\ hop = "KindSpec.Deploy"
    /\ hpc = "manifest"
    /\ hi' = hi + 1
    /\ \E e \in ExecResults :
           /\ Exec(<<"kubectl", "apply", "-f", Manifest(hi + 1)>>, e)
           /\ HostReturnIfErr(Wrap("failed to deploy manifest", e), AfterManifest(kspec, hi + 1))
    /\ UNCHANGED <<hop, hcalls, kspec, hmissing, ixia, stdout, env, envAtCall, files, made,
                   originalConfig, images, nodes>>

\* return nil at the end of a method
HostReturnNil ==
    /\ hpc = "return"
    /\ HostReturn(NoErr)
    /\ UNCHANGED <<hop, hcalls, cmds, kspec, hmissing, ixia, stdout, env, envAtCall, files,
                   made, originalConfig, hi, images, nodes>>

(***************************************************************************)
(* KindSpec.setupGoogleArtifactRegistryAccess.                             *)
(***************************************************************************)
\* where Deploy goes after setupGoogleArtifactRegistryAccess returned nil
AfterSetup(spec) == IF spec.ContainerImages # 0 THEN "pull" ELSE "return"

\* MkdirTemp failed: nothing is deferred yet; Deploy returns the wrapped error
SetupReturnEarly(e) ==
    HostReturn(Wrap("failed to setup Google artifact registry access", e))

\* the return with the directory left behind: only the environment is restored
SetupReturnNoRemove(e) ==
    /\ env' = RestoreEnv(originalConfig)
    /\ files' = files
    /\ HostReturnIfErr(Wrap("failed to setup Google artifact registry access", e),
                       AfterSetup(kspec))

\* a return after the two defers: os.Setenv(dockerConfigEnvVar, originalConfig)
\* runs, then os.RemoveAll(tempDockerDir); Deploy returns the error wrapped, or
\* goes on
SetupReturn(e) ==
    /\ env' = RestoreEnv(originalConfig)
    /\ files' = files \ {TempDockerDir(hcalls)}
    /\ HostReturnIfErr(Wrap("failed to setup Google artifact registry access", e),
                       AfterSetup(kspec))

\* if err != nil { return err } inside the function, else go on at next
SetupReturnIfErr(e, next) ==
    IF e # NoErr THEN SetupReturn(e)
    ELSE /\ hpc' = next
         /\ UNCHANGED <<hret, env, files>>

\* os.MkdirTemp, the two defers, os.Getenv and os.Setenv(dockerConfigEnvVar, tempDockerDir)
SetupMkdirTemp ==
    /\ hpc = "MkdirTemp"
    /\ \/ /\ SetupReturnEarly(HostErr("MkdirTemp", "failed"))
          /\ UNCHANGED <<files, made, originalConfig, env>>
       \/ /\ files' = files \cup {TempDockerDir(hcalls)}
          /\ made' = made \cup {TempDockerDir(hcalls)}
          /\ originalConfig' = Getenv(env)
          /\ env' = SetTo(TempDockerDir(hcalls))
          /\ hpc' = "writeDockerConfig"
          /\ UNCHANGED hret
    /\ UNCHANGED <<hop, hcalls, cmds, kspec, hmissing, ixia, stdout, envAtCall, hi,
                   images, nodes>>

\* writeDockerConfig(configPath, k.GoogleArtifactRegistries)
SetupWriteDockerConfig ==
    /\ hpc = "writeDockerConfig"
    /\ \E e \in {NoErr, HostErr("writeDockerConfig", "failed")} :
           SetupReturnIfErr(e, "token")
    /\ UNCHANGED <<hop, hcalls, cmds, kspec, hmissing, ixia, stdout, envAtCall, made,
                   originalConfig, hi, images, nodes>>

\* execer.SetStdout(&buffer); execer.Exec(command); on an error return it;
\* execer.SetStdout(log.StandardLogger().Out)
Captured(buffer, command, next) ==
    \E e \in ExecResults :
        /\ cmds' = Append(cmds, [cmd |-> command, out |-> Sink(buffer, hcalls), err |-> e])
        /\ stdout' = IF e # NoErr THEN Sink(buffer, hcalls) ELSE DefaultSink
        /\ SetupReturnIfErr(e, next)

\* gcloud auth print-access-token, captured in token
SetupToken ==
    /\ hpc = "token"
    /\ hi' = 0
    /\ Captured("token", <<"gcloud", "auth", "print-access-token">>,
                IF kspec.GoogleArtifactRegistries > 0 THEN "login" ELSE "nodes")
    /\ UNCHANGED <<hop, hcalls, kspec, hmissing, ixia, envAtCall, made, originalConfig,
                   images, nodes>>

\* for _, r := range k.GoogleArtifactRegistries: docker login ... https://r
SetupLogin ==
    /\ hpc = "login"
    /\ hi' = hi + 1
    /\ \E e \in ExecResults :
           /\ Exec(<<"docker", "login", "-u", "oauth2accesstoken", "-p", "token",
                     "https://" \o Registry(hi + 1)>>, e)
           /\ SetupReturnIfErr(e, IF hi + 1 < kspec.GoogleArtifactRegistries
                                  THEN "login" ELSE "nodes")
    /\ UNCHANGED <<hop, hcalls, kspec, hmissing, ixia, stdout, envAtCall, made,
                   originalConfig, images, nodes>>

\* kind get nodes [--name k.Name], captured in nodes
SetupGetNodes ==
    /\ hpc = "nodes"
    /\ hi' = 0
    /\ Captured("nodes", <<"kind", "get", "nodes">> \o NameArgs(kspec), "cp")
    /\ \E output \in NodeOutputs : nodes' = IF hpc' = "cp" THEN output ELSE <<>>
    /\ UNCHANGED <<hop, hcalls, kspec, hmissing, ixia, envAtCall, made, originalConfig,
                   images>>

\* docker cp configPath <node>:/var/lib/kubelet/config.json
SetupCopy ==
    /\ hpc = "cp"
    /\ \E e \in ExecResults :
           /\ Exec(<<"docker", "cp", "config.json",
                     NodesOf(nodes)[hi + 1] \o ":/var/lib/kubelet/config.json">>, e)
           /\ SetupReturnIfErr(e, "restart")
    /\ UNCHANGED <<hop, hcalls, kspec, hmissing, ixia, stdout, envAtCall, made,
                   originalConfig, hi, images, nodes>>

\* docker exec <node> systemctl restart kubelet.service; return nil after the
\* last node
SetupRestart ==
    /\ hpc = "restart"
    /\ hi' = hi + 1
    /\ \E e \in ExecResults :
           /\ Exec(<<"docker", "exec", NodesOf(nodes)[hi + 1], "systemctl", "restart",
                     "kubelet.service">>, e)
           /\ IF e = NoErr /\ hi + 1 < Len(NodesOf(nodes))
              THEN hpc' = "cp" /\ UNCHANGED <<hret, env, files>>
              ELSE SetupReturn(e)
    /\ UNCHANGED <<hop, hcalls, kspec, hmissing, ixia, stdout, envAtCall, made,
                   originalConfig, images, nodes>>

(***************************************************************************)
(* KindSpec.loadContainerImages, KindSpec.Delete, KindSpec.Healthy.        *)
(***************************************************************************)
LoadErr(text, e) == Wrap("failed to load container images", Wrap(text, e))

\* for s, d := range k.ContainerImages: the next pair, in any order; docker pull s
LoadPull ==
    /\ hpc = "pull"
    /\ \E j \in (1 .. kspec.ContainerImages) \ images :
           /\ hi' = j
           /\ \E e \in ExecResults :
                  /\ Exec(<<"docker", "pull", ImageSource(j)>>, e)
                  /\ HostReturnIfErr(LoadErr("failed to pull", e), "tag")
    /\ UNCHANGED <<hop, hcalls, kspec, hmissing, ixia, stdout, env, envAtCall, files,
                   made, originalConfig, images, nodes>>

\* docker tag s d
LoadTag ==
    /\ hpc = "tag"
    /\ \E e \in ExecResults :
           /\ Exec(<<"docker", "tag", ImageSource(hi), ImageDest(hi)>>, e)
           /\ HostReturnIfErr(LoadErr("failed to tag", e), "load")
    /\ UNCHANGED <<hop, hcalls, kspec, hmissing, ixia, stdout, env, envAtCall, files,
                   made, originalConfig, hi, images, nodes>>

\* kind load docker-image d [--name k.Name]; return nil after the last pair
LoadLoad ==
    /\ hpc = "load"
    /\ images' = images \cup {hi}
    /\ \E e \in ExecResults :
           /\ Exec(<<"kind", "load", "docker-image", ImageDest(hi)>> \o NameArgs(kspec), e)
           /\ HostReturnIfErr(LoadErr("failed to load", e),
                              IF images' = 1 .. kspec.ContainerImages
                              THEN "return" ELSE "pull")
    /\ UNCHANGED <<hop, hcalls, kspec, hmissing, ixia, stdout, env, envAtCall, files,
                   made, originalConfig, hi, nodes>>

\* kind delete cluster [--name k.Name]
KindDelete ==
    /\ hop = "KindSpec.Delete"
    /\ hpc = "delete"
    /\ \E e \in ExecResults :
           /\ Exec(<<"kind", "delete", "cluster">> \o NameArgs(kspec), e)
           /\ HostReturn(Wrap("failed to delete cluster using cli", e))
    /\ UNCHANGED <<hop, hcalls, kspec, hmissing, ixia, stdout, env, envAtCall, files,
                   made, originalConfig, hi, images, nodes>>

\* kubectl cluster-info --context kind-<k.GetName()>
KindHealthy ==
    /\ hop = "KindSpec.Healthy"
    /\ hpc = "cluster-info"
    /\ \E e \in ExecResults :
           /\ Exec(<<"kubectl", "cluster-info", "--context", "kind-" \o GetName(kspec)>>, e)
           /\ HostReturn(Wrap("cluster not healthy", e))
    /\ UNCHANGED <<hop, hcalls, kspec, hmissing, ixia, stdout, env, envAtCall, files,
                   made, originalConfig, hi, images, nodes>>

(***************************************************************************)
(* IxiaTGSpec.Deploy.                                                      *)
(***************************************************************************)
\* an IxiaTGSpec: whether i.ConfigMap is set, and whether the file
\* <ManifestDir>/ixia-configmap.yaml exists
IxiaSpecs == [ConfigMap : BOOLEAN, staticFile : BOOLEAN]

\* osStat(path)
StatResult(spec) == IF spec.staticFile THEN NoErr ELSE HostErr("osStat", "not exist")

\* kubectl apply -f <ManifestDir>/ixiatg-operator.yaml
IxiaOperator ==
    /\ hpc = "operator"
    /\ \E e \in ExecResults :
           /\ Exec(<<"kubectl", "apply", "-f", "ixiatg-operator.yaml">>, e)
           /\ HostReturnIfErr(e, IF ixia.ConfigMap THEN "CreateTemp" ELSE "stat")
    /\ UNCHANGED <<hop, hcalls, kspec, hmissing, ixia, stdout, env, envAtCall, files,
                   made, originalConfig, hi, images, nodes>>

\* the check of the file with its result thrown away
IxiaStatIgnored ==
    /\ hpc = "stat"
    /\ hpc' = "applyStatic"
    /\ UNCHANGED <<hret, hop, hcalls, cmds, kspec, hmissing, ixia, stdout, env,
                   envAtCall, files, made, originalConfig, hi, images, nodes>>

\* i.ConfigMap == nil: the file has to be there
IxiaStat ==
    /\ hpc = "stat"
    /\ HostReturnIfErr(Wrap("ixia configmap not found", StatResult(ixia)), "applyStatic")
    /\ UNCHANGED <<hop, hcalls, cmds, kspec, hmissing, ixia, stdout, env, envAtCall,
                   files, made, originalConfig, hi, images, nodes>>

\* kubectl apply -f <ManifestDir>/ixia-configmap.yaml; return
IxiaApplyStatic ==
    /\ hpc = "applyStatic"
    /\ \E e \in ExecResults :
           /\ Exec(<<"kubectl", "apply", "-f", "ixia-configmap.yaml">>, e)
           /\ HostReturn(e)
    /\ UNCHANGED <<hop, hcalls, kspec, hmissing, ixia, stdout, env, envAtCall, files,
                   made, originalConfig, hi, images, nodes>>

\* a return after defer os.Remove(f.Name())
IxiaReturn(e) ==
    /\ files' = files \ {TempConfigMap(hcalls)}
    /\ HostReturn(e)

\* json.MarshalIndent of the config and os.CreateTemp
IxiaCreateTemp ==
    /\ hpc = "CreateTemp"
    /\ \/ /\ HostReturn(HostErr("CreateTemp", "failed"))
          /\ UNCHANGED <<files, made>>
       \/ /\ files' = files \cup {TempConfigMap(hcalls)}
          /\ made' = made \cup {TempConfigMap(hcalls)}
          /\ hpc' = "Write"
          /\ UNCHANGED hret
    /\ UNCHANGED <<hop, hcalls, cmds, kspec, hmissing, ixia, stdout, env, envAtCall,
                   originalConfig, hi, images, nodes>>

\* f.Write(b)
IxiaWrite ==
    /\ hpc = "Write"
    /\ \/ IxiaReturn(HostErr("Write", "failed"))
       \/ hpc' = "applyTemp" /\ UNCHANGED <<hret, files>>
    /\ UNCHANGED <<hop, hcalls, cmds, kspec, hmissing, ixia, stdout, env, envAtCall,
                   made, originalConfig, hi, images, nodes>>

\* kubectl apply -f f.Name(); return
IxiaApplyTemp ==
    /\ hpc = "applyTemp"
    /\ \E e \in ExecResults :
           /\ Exec(<<"kubectl", "apply", "-f", TempConfigMap(hcalls)>>, e)
           /\ IxiaReturn(e)
    /\ UNCHANGED <<hop, hcalls, kspec, hmissing, ixia, stdout, env, envAtCall, made,
                   originalConfig, hi, images, nodes>>

\* the states of DOCKER_CONFIG before a call
EnvStates == {Unset, SetTo(""), SetTo("/home/user/.docker")}

\* host components on which nothing is called
IdleHost ==
    /\ hpc = "off"
    /\ hop = "none"
    /\ hret = NoErr
    /\ hcalls = 0
    /\ cmds = <<>>
    /\ kspec = [Name |-> "", Recycle |-> FALSE, GoogleArtifactRegistries |-> 0,
                AdditionalManifests |-> 0, ContainerImages |-> 0]
    /\ hmissing = {}
    /\ ixia = [ConfigMap |-> FALSE, staticFile |-> FALSE]
    /\ stdout = DefaultSink
    /\ env = Unset
    /\ envAtCall = Unset
    /\ files = {}
    /\ made = {}
    /\ originalConfig = ""
    /\ hi = 0
    /\ images = {}
    /\ nodes = <<>>

\* the watch functions before they are called
IdleWatch ==
    /\ wfn = "none"
    /\ wpc = "idle"
    /\ wctxDone = FALSE
    /\ ch = [state |-> "empty", obj |-> NoObject]
    /\ ev = NoObject
    /\ wret = Pending
    /\ nsent = 0
    /\ doneAtRecv = FALSE
    /\ nrecv = 0
    /\ firstUnavail = -1

(***************************************************************************)
(* The orchestrator's specification.                                       *)
(***************************************************************************)
InitDeployment ==
    /\ pc = "idle"
    /\ op = "none"
    /\ calls = <<>>
    /\ ret = NoErr
    /\ missing \in SUBSET {"docker", "kubectl"}
    /\ probed = <<>>
    /\ nctl \in 0 .. MaxControllers
    /\ i = 0
    /\ now = 0
    /\ ctxCancelled = FALSE
    /\ tCtx = NoCtx
    /\ callStart = 0
    /\ waitStart = 0
    /\ lastWait = NoWait
    /\ kClient = NilHandle
    /\ kc = [s \in Stages \ {ClusterStage} |-> NilHandle]
    /\ nbuilt = 0
    /\ ncalls = 0

Init == InitDeployment /\ IdleWatch /\ IdleInc /\ IdleMetalLB /\ IdleHost

Next ==
    \/ CallDeploy /\ UNCHANGED <<wvars, ivars, mvars, hvars>>
    \/ CallHealthy /\ UNCHANGED <<wvars, ivars, mvars, hvars>>
    \/ CallDelete /\ UNCHANGED <<wvars, ivars, mvars, hvars>>
    \/ Tick /\ UNCHANGED <<wvars, ivars, mvars, hvars>>
    \/ CancelCtx /\ UNCHANGED <<wvars, ivars, mvars, hvars>>
    \/ DeployCheckDependencies /\ UNCHANGED <<wvars, ivars, mvars, hvars>>
    \/ DeployCluster /\ UNCHANGED <<wvars, ivars, mvars, hvars>>
    \/ DeployBuildConfig /\ UNCHANGED <<wvars, ivars, mvars, hvars>>
    \/ DeployNewForConfig /\ UNCHANGED <<wvars, ivars, mvars, hvars>>
    \/ DeployIngressSetKClient /\ UNCHANGED <<wvars, ivars, mvars, hvars>>
    \/ DeployIngressDeploy /\ UNCHANGED <<wvars, ivars, mvars, hvars>>
    \/ DeployIngressWithTimeout /\ UNCHANGED <<wvars, ivars, mvars, hvars>>
    \/ DeployIngressHealthy /\ UNCHANGED <<wvars, ivars, mvars, hvars>>
    \/ DeployCNIDeploy /\ UNCHANGED <<wvars, ivars, mvars, hvars>>
    \/ DeployCNISetKClient /\ UNCHANGED <<wvars, ivars, mvars, hvars>>
    \/ DeployCNIWithTimeout /\ UNCHANGED <<wvars, ivars, mvars, hvars>>
    \/ DeployCNIHealthy /\ UNCHANGED <<wvars, ivars, mvars, hvars>>
    \/ DeployControllers /\ UNCHANGED <<wvars, ivars, mvars, hvars>>
    \/ DeployControllerDeploy /\ UNCHANGED <<wvars, ivars, mvars, hvars>>
    \/ DeployControllerSetKClient /\ UNCHANGED <<wvars, ivars, mvars, hvars>>
    \/ DeployControllerWithTimeout /\ UNCHANGED <<wvars, ivars, mvars, hvars>>
    \/ DeployControllerHealthy /\ UNCHANGED <<wvars, ivars, mvars, hvars>>
    \/ DeleteCluster /\ UNCHANGED <<wvars, ivars, mvars, hvars>>
    \/ HealthyCluster /\ UNCHANGED <<wvars, ivars, mvars, hvars>>
    \/ HealthyIngressWithTimeout /\ UNCHANGED <<wvars, ivars, mvars, hvars>>
    \/ HealthyIngressHealthy /\ UNCHANGED <<wvars, ivars, mvars, hvars>>
    \/ HealthyCNIWithTimeout /\ UNCHANGED <<wvars, ivars, mvars, hvars>>
    \/ HealthyCNIHealthy /\ UNCHANGED <<wvars, ivars, mvars, hvars>>
    \/ HealthyControllers /\ UNCHANGED <<wvars, ivars, mvars, hvars>>
    \/ HealthyControllerWithTimeout /\ UNCHANGED <<wvars, ivars, mvars, hvars>>
    \/ HealthyControllerHealthy /\ UNCHANGED <<wvars, ivars, mvars, hvars>>

Spec == Init /\ [][Next]_vars

(***************************************************************************)
(* deploymentHealthy and MeshnetSpec.Healthy.  Both open a watch and loop  *)
(* over a select of ctx.Done() and the watch's channel; they differ in the *)
(* kind of object they expect and in the readiness condition.              *)
(***************************************************************************)
ErrWatchFailed == Err("Watch", -1, "watch failed")
ErrCanceled == Err("select", -1, "context canceled before healthy")
ErrClosed == Err("select", -1, "watch channel closed before healthy")
ErrInvalidType == Err("select", -1, "invalid object type")

\* the kind the type assertion of a watch function asks for
WatchedKind(fn) == IF fn = "deploymentHealthy" THEN "Deployment" ELSE "DaemonSet"

\* deploymentReady without the comparison of UpdatedReplicas
deploymentReadyNoUpdated(d) ==
    LET r == IF d.SpecReplicas # NilReplicas THEN d.SpecReplicas ELSE 1
    IN  /\ d.AvailableReplicas = r
        /\ d.ReadyReplicas = r
        /\ d.UnavailableReplicas = 0
        /\ d.Replicas = r

\* var r int32 = 1; if d.Spec.Replicas != nil { r = *d.Spec.Replicas }; and the
\* condition under which deploymentHealthy returns nil
deploymentReady(d) ==
    LET r == IF d.SpecReplicas # NilReplicas THEN d.SpecReplicas ELSE 1
    IN  /\ d.AvailableReplicas = r
        /\ d.ReadyReplicas = r
        /\ d.UnavailableReplicas = 0
        /\ d.Replicas = r
        /\ d.UpdatedReplicas = r

\* daemonSetReady without the comparison of NumberUnavailable
daemonSetReadyNoUnavailable(d) == d.NumberReady = d.DesiredNumberScheduled

\* the condition under which MeshnetSpec.Healthy returns nil
daemonSetReady(d) ==
    /\ d.NumberReady = d.DesiredNumberScheduled
    /\ d.NumberUnavailable = 0

WatchReturn(err) ==
    /\ wpc' = "returned"
    /\ wret' = err

\* w, err := ....Watch(ctx, ...); if err != nil { return err }
WatchOpen(fn) ==
    /\ wfn = fn
    /\ wpc = "Watch"
    /\ \/ WatchReturn(ErrWatchFailed)
       \/ wpc' = "select" /\ UNCHANGED wret
    /\ UNCHANGED <<wfn, wctxDone, ch, ev, nsent, doneAtRecv, nrecv, firstUnavail>>

\* case <-ctx.Done() that goes round the loop instead of returning
SelectDoneContinues(fn) ==
    /\ wfn = fn
    /\ wpc = "select"
    /\ wctxDone
    /\ wpc' = "next"
    /\ UNCHANGED <<wfn, wctxDone, ch, ev, wret, nsent, doneAtRecv, nrecv, firstUnavail>>

\* case <-ctx.Done(): return fmt.Errorf("context canceled before healthy")
SelectDone(fn) ==
    /\ wfn = fn
    /\ wpc = "select"
    /\ wctxDone
    /\ WatchReturn(ErrCanceled)
    /\ UNCHANGED <<wfn, wctxDone, ch, ev, nsent, doneAtRecv, nrecv, firstUnavail>>

\* SelectRecv without the test of ok: the zero Event of a closed channel is
\* handled like an event
SelectRecvNoOkCheck(fn) ==
    /\ wfn = fn
    /\ wpc = "select"
    /\ ch.state \in {"event", "closed"}
    /\ ev' = ch.obj
    /\ ch' = IF ch.state = "closed" THEN ch ELSE [state |-> "empty", obj |-> NoObject]
    /\ wpc' = "event"
    /\ doneAtRecv' = wctxDone
    /\ nrecv' = nrecv + 1
    /\ UNCHANGED <<wfn, wctxDone, wret, nsent, firstUnavail>>

\* case e, ok := <-ch: if !ok { return fmt.Errorf("watch channel closed ...") }
SelectRecv(fn) ==
    /\ wfn = fn
    /\ wpc = "select"
    /\ \/ /\ ch.state = "closed"
          /\ WatchReturn(ErrClosed)
          /\ UNCHANGED <<ch, ev, doneAtRecv, nrecv, firstUnavail>>
       \/ /\ ch.state = "event"
          /\ ev' = ch.obj
          /\ ch' = [state |-> "empty", obj |-> NoObject]
          /\ wpc' = "event"
          /\ doneAtRecv' = wctxDone
          /\ nrecv' = nrecv + 1
          /\ firstUnavail' = IF nrecv = 0 /\ ch.obj.kind = "DaemonSet"
                             THEN ch.obj.NumberUnavailable ELSE firstUnavail
          /\ UNCHANGED wret
    /\ UNCHANGED <<wfn, wctxDone, nsent>>

\* d, ok := e.Object.(*appsv1.Deployment); if !ok { return ... }; the replica
\* counters are compared and nil is returned when they all match
DeploymentHealthyEvent ==
    /\ wfn = "deploymentHealthy"
    /\ wpc = "event"
    /\ IF ev.kind # "Deployment" THEN WatchReturn(ErrInvalidType)
       ELSE IF deploymentReady(ev) THEN WatchReturn(NoErr)
       ELSE wpc' = "next" /\ UNCHANGED wret
    /\ UNCHANGED <<wfn, wctxDone, ch, ev, nsent, doneAtRecv, nrecv, firstUnavail>>

\* d, ok := e.Object.(*appsv1.DaemonSet); if !ok { return ... }; nil is returned
\* when the daemon set is ready
MeshnetHealthyEvent ==
    /\ wfn = "MeshnetSpec.Healthy"
    /\ wpc = "event"
    /\ IF ev.kind # "DaemonSet" THEN WatchReturn(ErrInvalidType)
       ELSE IF daemonSetReady(ev) THEN WatchReturn(NoErr)
       ELSE wpc' = "next" /\ UNCHANGED wret
    /\ UNCHANGED <<wfn, wctxDone, ch, ev, nsent, doneAtRecv, nrecv, firstUnavail>>

\* the end of the select: the for loop goes round
LoopNext(fn) ==
    /\ wfn = fn
    /\ wpc = "next"
    /\ wpc' = "select"
    /\ ev' = NoObject
    /\ UNCHANGED <<wfn, wctxDone, ch, wret, nsent, doneAtRecv, nrecv, firstUnavail>>

DeploymentHealthyWatch == WatchOpen("deploymentHealthy")

DeploymentHealthySelectDone == SelectDone("deploymentHealthy")

DeploymentHealthySelectRecv == SelectRecv("deploymentHealthy")

DeploymentHealthyNext == LoopNext("deploymentHealthy")

MeshnetHealthyWatch == WatchOpen("MeshnetSpec.Healthy")

MeshnetHealthySelectDone == SelectDone("MeshnetSpec.Healthy")

MeshnetHealthySelectRecv == SelectRecv("MeshnetSpec.Healthy")

MeshnetHealthyNext == LoopNext("MeshnetSpec.Healthy")

(***************************************************************************)
(* The environment of a watch: the event stream and the context.  An event *)
(* is offered while the function is at its select; one offered while it    *)
(* handles the event before is seen at the next select all the same.       *)
(***************************************************************************)
StreamSend ==
    /\ wpc = "select"
    /\ ch.state = "empty"
    /\ nsent < MaxEvents
    /\ \E o \in Objects(wfn) : ch' = [state |-> "event", obj |-> o]
    /\ nsent' = nsent + 1
    /\ UNCHANGED <<wfn, wpc, wctxDone, ev, wret, doneAtRecv, nrecv, firstUnavail>>

StreamClose ==
    /\ wpc = "select"
    /\ ch.state = "empty"
    /\ ch' = [state |-> "closed", obj |-> NoObject]
    /\ UNCHANGED <<wfn, wpc, wctxDone, ev, wret, nsent, doneAtRecv, nrecv, firstUnavail>>

\* the deadline of ctx passes, or ctx is cancelled
CtxFire ==
    /\ wpc \in {"Watch", "select", "event", "next"}
    /\ ~wctxDone
    /\ wctxDone' = TRUE
    /\ UNCHANGED <<wfn, wpc, ch, ev, wret, nsent, doneAtRecv, nrecv, firstUnavail>>

(***************************************************************************)
(* The specification of the two watch functions.                           *)
(***************************************************************************)
\* a Deployment on which nothing is called
IdleDeployment ==
    /\ InitDeployment
    /\ missing = {}
    /\ nctl = 0

InitWatch ==
    /\ IdleDeployment
    /\ IdleInc
    /\ IdleMetalLB
    /\ IdleHost
    /\ wfn \in {"deploymentHealthy", "MeshnetSpec.Healthy"}
    /\ wpc = "Watch"
    /\ wctxDone = FALSE
    /\ ch = [state |-> "empty", obj |-> NoObject]
    /\ ev = NoObject
    /\ wret = Pending
    /\ nsent = 0
    /\ doneAtRecv = FALSE
    /\ nrecv = 0
    /\ firstUnavail = -1

NextWatch ==
    \/ DeploymentHealthyWatch /\ UNCHANGED <<ovars, ivars, mvars, hvars>>
    \/ DeploymentHealthySelectDone /\ UNCHANGED <<ovars, ivars, mvars, hvars>>
    \/ DeploymentHealthySelectRecv /\ UNCHANGED <<ovars, ivars, mvars, hvars>>
    \/ DeploymentHealthyEvent /\ UNCHANGED <<ovars, ivars, mvars, hvars>>
    \/ DeploymentHealthyNext /\ UNCHANGED <<ovars, ivars, mvars, hvars>>
    \/ MeshnetHealthyWatch /\ UNCHANGED <<ovars, ivars, mvars, hvars>>
    \/ MeshnetHealthySelectDone /\ UNCHANGED <<ovars, ivars, mvars, hvars>>
    \/ MeshnetHealthySelectRecv /\ UNCHANGED <<ovars, ivars, mvars, hvars>>
    \/ MeshnetHealthyEvent /\ UNCHANGED <<ovars, ivars, mvars, hvars>>
    \/ MeshnetHealthyNext /\ UNCHANGED <<ovars, ivars, mvars, hvars>>
    \/ StreamSend /\ UNCHANGED <<ovars, ivars, mvars, hvars>>
    \/ StreamClose /\ UNCHANGED <<ovars, ivars, mvars, hvars>>
    \/ CtxFire /\ UNCHANGED <<ovars, ivars, mvars, hvars>>

SpecWatch == InitWatch /\ [][NextWatch]_vars

(***************************************************************************)
(* The watch functions under fair scheduling: the function takes its next  *)
(* step when it has one, and the deadline of its context passes.  Nothing  *)
(* is assumed of the event stream.                                         *)
(***************************************************************************)
WatchStep ==
    /\ \/ DeploymentHealthyWatch
       \/ DeploymentHealthySelectDone
       \/ DeploymentHealthySelectRecv
       \/ DeploymentHealthyEvent
       \/ DeploymentHealthyNext
       \/ MeshnetHealthyWatch
       \/ MeshnetHealthySelectDone
       \/ MeshnetHealthySelectRecv
       \/ MeshnetHealthyEvent
       \/ MeshnetHealthyNext
    /\ UNCHANGED <<ovars, ivars, mvars, hvars>>

DeadlineStep == CtxFire /\ UNCHANGED <<ovars, ivars, mvars, hvars>>

SpecWatchLive ==
    /\ InitWatch
    /\ [][NextWatch]_vars
    /\ WF_vars(WatchStep)
    /\ WF_vars(DeadlineStep)

(***************************************************************************)
(* The specification of inc on 4-byte addresses.                           *)
(***************************************************************************)
InitInc ==
    /\ IdleDeployment
    /\ IdleWatch
    /\ IdleMetalLB
    /\ IdleHost
    /\ incIP \in [1 .. 4 -> Octets]
    /\ incCnt \in IncCounts
    /\ incOrig = incIP
    /\ incN = incCnt
    /\ incPc = "loop"

NextInc ==
    \/ IncLoop /\ UNCHANGED <<ovars, wvars, mvars, hvars>>
    \/ IncReturn /\ UNCHANGED <<ovars, wvars, mvars, hvars>>

SpecInc == InitInc /\ [][NextInc]_vars

(***************************************************************************)
(* The specification of MetalLBSpec.Deploy.                                *)
(***************************************************************************)
InitMetalLB ==
    /\ IdleDeployment
    /\ IdleWatch
    /\ IdleInc
    /\ IdleHost
    /\ mpc = "idle"
    /\ mret = NoErr
    /\ mkc \in {NilHandle, NilHandle + 1}
    /\ dClient \in BOOLEAN
    /\ cluster \in [MetalLBObjects -> {Absent, Preexisting}]
    /\ mcalls = 0
    /\ IPCount \in IPCounts
    /\ nr = NoList
    /\ n = NilNet
    /\ start = <<>>
    /\ end = <<>>
    /\ creates = <<>>
    /\ found = [o \in MetalLBObjects |-> "unchecked"]
    /\ atCheck = [o \in MetalLBObjects |-> Absent]

NextMetalLB ==
    \/ MetalLBCall /\ UNCHANGED <<ovars, wvars, ivars, hvars>>
    \/ MetalLBNewClient /\ UNCHANGED <<ovars, wvars, ivars, hvars>>
    \/ MetalLBApplyNamespace /\ UNCHANGED <<ovars, wvars, ivars, hvars>>
    \/ MetalLBGetSecret /\ UNCHANGED <<ovars, wvars, ivars, hvars>>
    \/ MetalLBCreateSecret /\ UNCHANGED <<ovars, wvars, ivars, hvars>>
    \/ MetalLBApplyPods /\ UNCHANGED <<ovars, wvars, ivars, hvars>>
    \/ MetalLBGetConfig /\ UNCHANGED <<ovars, wvars, ivars, hvars>>
    \/ MetalLBReturnNil /\ UNCHANGED <<ovars, wvars, ivars, hvars>>
    \/ MetalLBNetworkList /\ UNCHANGED <<ovars, wvars, ivars, hvars>>
    \/ MakeConfigStart /\ UNCHANGED <<ovars, wvars, hvars>>
    \/ IncLoop /\ UNCHANGED <<ovars, wvars, mvars, hvars>>
    \/ IncReturn /\ UNCHANGED <<ovars, wvars, mvars, hvars>>
    \/ MakeConfigEnd /\ UNCHANGED <<ovars, wvars, hvars>>
    \/ MakeConfigReturn /\ UNCHANGED <<ovars, wvars, hvars>>
    \/ MetalLBCreateConfig /\ UNCHANGED <<ovars, wvars, ivars, hvars>>

SpecMetalLB == InitMetalLB /\ [][NextMetalLB]_vars

(***************************************************************************)
(* The specification of the host components.                               *)
(***************************************************************************)
InitHost ==
    /\ IdleDeployment
    /\ IdleWatch
    /\ IdleInc
    /\ IdleMetalLB
    /\ hpc = "idle"
    /\ hop = "none"
    /\ hret = NoErr
    /\ hcalls = 0
    /\ cmds = <<>>
    /\ kspec \in KindSpecs
    /\ hmissing \in SUBSET {"kind", "gcloud"}
    /\ ixia \in IxiaSpecs
    /\ stdout = DefaultSink
    /\ env \in EnvStates
    /\ envAtCall = env
    /\ files = {}
    /\ made = {}
    /\ originalConfig = ""
    /\ hi = 0
    /\ images = {}
    /\ nodes = <<>>

NextHost ==
    \/ CallKindDeploy /\ UNCHANGED <<ovars, wvars, ivars, mvars>>
    \/ CallKindDelete /\ UNCHANGED <<ovars, wvars, ivars, mvars>>
    \/ CallKindHealthy /\ UNCHANGED <<ovars, wvars, ivars, mvars>>
    \/ CallIxiaDeploy /\ UNCHANGED <<ovars, wvars, ivars, mvars>>
    \/ KindCheckDependencies /\ UNCHANGED <<ovars, wvars, ivars, mvars>>
    \/ KindRecycle /\ UNCHANGED <<ovars, wvars, ivars, mvars>>
    \/ KindCreate /\ UNCHANGED <<ovars, wvars, ivars, mvars>>
    \/ KindManifest /\ UNCHANGED <<ovars, wvars, ivars, mvars>>
    \/ HostReturnNil /\ UNCHANGED <<ovars, wvars, ivars, mvars>>
    \/ SetupMkdirTemp /\ UNCHANGED <<ovars, wvars, ivars, mvars>>
    \/ SetupWriteDockerConfig /\ UNCHANGED <<ovars, wvars, ivars, mvars>>
    \/ SetupToken /\ UNCHANGED <<ovars, wvars, ivars, mvars>>
    \/ SetupLogin /\ UNCHANGED <<ovars, wvars, ivars, mvars>>
    \/ SetupGetNodes /\ UNCHANGED <<ovars, wvars, ivars, mvars>>
    \/ SetupCopy /\ UNCHANGED <<ovars, wvars, ivars, mvars>>
    \/ SetupRestart /\ UNCHANGED <<ovars, wvars, ivars, mvars>>
    \/ LoadPull /\ UNCHANGED <<ovars, wvars, ivars, mvars>>
    \/ LoadTag /\ UNCHANGED <<ovars, wvars, ivars, mvars>>
    \/ LoadLoad /\ UNCHANGED <<ovars, wvars, ivars, mvars>>
    \/ KindDelete /\ UNCHANGED <<ovars, wvars, ivars, mvars>>
    \/ KindHealthy /\ UNCHANGED <<ovars, wvars, ivars, mvars>>
    \/ IxiaOperator /\ UNCHANGED <<ovars, wvars, ivars, mvars>>
    \/ IxiaStat /\ UNCHANGED <<ovars, wvars, ivars, mvars>>
    \/ IxiaApplyStatic /\ UNCHANGED <<ovars, wvars, ivars, mvars>>
    \/ IxiaCreateTemp /\ UNCHANGED <<ovars, wvars, ivars, mvars>>
    \/ IxiaWrite /\ UNCHANGED <<ovars, wvars, ivars, mvars>>
    \/ IxiaApplyTemp /\ UNCHANGED <<ovars, wvars, ivars, mvars>>

SpecHost == InitHost /\ [][NextHost]_vars

(***************************************************************************)
(* Claims about Deployment.Deploy.                                         *)
(***************************************************************************)
\* the positions of calls holding the invocation inv
Before(p, inv) == \E q \in 1 .. p - 1 : calls[q] = inv

\* the stages whose Deploy was invoked, in the order of invocation
RECURSIVE DeployOrder(_)
DeployOrder(log) ==
    IF log = <<>> THEN <<>>
    ELSE IF Head(log).method = "Deploy"
         THEN <<Head(log).stage>> \o DeployOrder(Tail(log))
         ELSE DeployOrder(Tail(log))

DeployReturned == op = "Deploy" /\ pc = "idle"

\* C1 as stated: in Deploy, a stage's Deploy is invoked only after the stage
\* before it (cluster, ingress, CNI, controllers in order) had both its Deploy
\* and its Healthy check return success.
C1_EveryStageDeployedAndHealthyFirst ==
    op = "Deploy" =>
        \A p \in 1 .. Len(calls) :
            (calls[p].method = "Deploy" /\ calls[p].stage > ClusterStage) =>
                /\ Before(p, Invocation(calls[p].stage - 1, "Deploy", NoErr))
                /\ Before(p, Invocation(calls[p].stage - 1, "Healthy", NoErr))

\* C1 amended: in Deploy, a stage's Deploy is invoked only after the Deploy
\* of the stage before it returned success and, when that stage is the
\* ingress, the CNI or a controller, after its Healthy check returned success
\* too (Deploy never calls Cluster.Healthy); a Deploy that returns nil invoked
\* the Deploys in exactly the order cluster, ingress, CNI, controllers 1..k,
\* and a Deploy in which no step failed returns nil.
C1_StageOrder ==
    op = "Deploy" =>
        /\ \A p \in 1 .. Len(calls) :
              (calls[p].method = "Deploy" /\ calls[p].stage > ClusterStage) =>
                  /\ Before(p, Invocation(calls[p].stage - 1, "Deploy", NoErr))
                  /\ calls[p].stage - 1 > ClusterStage =>
                        Before(p, Invocation(calls[p].stage - 1, "Healthy", NoErr))
        /\ (pc = "idle" /\ ret = NoErr) =>
              DeployOrder(calls) = [s \in 1 .. nctl + 3 |-> s - 1]
        /\ (pc = "idle" /\ ret # NoErr) =>
              \/ \E p \in 1 .. Len(calls) : calls[p].err # NoErr
              \/ ret.src \in {"checkDependencies", "BuildConfigFromFlags", "NewForConfig"}

\* a Deploy with the most controllers returned nil
C1_Witness ==
    /\ DeployReturned
    /\ ret = NoErr
    /\ nctl = MaxControllers
    /\ Len(calls) = 1 + 3 * (nctl + 2)

\* C2: a failure of any step of Deploy is what Deploy returns; it is the last
\* thing Deploy did: every invocation before it succeeded, nothing of a later
\* stage was invoked, and nothing was deleted or torn down.
C2_FailureAborts ==
    op = "Deploy" =>
        /\ \A p \in 1 .. Len(calls) :
              /\ calls[p].method # "Delete"
              /\ p < Len(calls) => calls[p].err = NoErr
              /\ calls[p].err # NoErr => pc = "idle" /\ ret = calls[p].err
        /\ (pc = "idle" /\ ret # NoErr) =>
              /\ ret.src = "checkDependencies" => calls = <<>>
              /\ ret.src \in {"BuildConfigFromFlags", "NewForConfig"} =>
                    calls = <<Invocation(ClusterStage, "Deploy", NoErr)>>
              /\ ret.src \in {"Deploy", "Healthy"} =>
                    /\ calls # <<>>
                    /\ calls[Len(calls)].err = ret
                    /\ \A p \in 1 .. Len(calls) : calls[p].stage <= ret.stage

\* the ingress health wait ran into its deadline: Deploy returned that failure
\* and the CNI was never deployed
C2_Witness ==
    /\ DeployReturned
    /\ ret = Err("Healthy", IngressStage, "canceled")
    /\ ~lastWait.parentCancelled
    /\ \A p \in 1 .. Len(calls) : calls[p].stage # CNIStage

\* the set of the elements of a sequence
Range(seq) == {seq[k] : k \in 1 .. Len(seq)}

\* C3: the dependency check asks for both docker and kubectl whatever the
\* first lookup gave, its error names exactly the binaries that did not
\* resolve (nil when all did), and on that error Deploy returns it before
\* invoking any component.
C3_DependencyCheckAggregates ==
    (op = "Deploy" /\ pc # "checkDependencies") =>
        /\ probed = RequiredBins
        /\ missing = {} => ret.kind # "MissingDependency"
        /\ missing # {} =>
              /\ pc = "idle"
              /\ ret.kind = "MissingDependency"
              /\ Range(ret.bins) = missing
              /\ Len(ret.bins) = Cardinality(missing)
              /\ calls = <<>>

\* both binaries are missing and Deploy returned the one error naming both
C3_Witness ==
    /\ DeployReturned
    /\ missing = {"docker", "kubectl"}
    /\ ret.bins = <<"docker", "kubectl">>

\* the positions at which a Healthy(tCtx) is waited for
Waiting ==
    pc \in {"Ingress.Healthy", "CNI.Healthy", "Controller.Healthy",
            "H.Ingress.Healthy", "H.CNI.Healthy", "H.Controller.Healthy"}

\* C4: every readiness wait of Deploy has a deadline of exactly healthTimeout
\* after the moment the wait began, whatever time the earlier stages took:
\* its context is done only when that much time has passed since the wait
\* began or the caller's context is cancelled, and a wait that ended with the
\* cancellation failure while the caller's context was live lasted at least
\* healthTimeout.
C4_DeadlinePerWait ==
    op = "Deploy" =>
        /\ Waiting =>
              /\ tCtx.armed
              /\ tCtx.deadline = waitStart + healthTimeout
              /\ CtxDone(tCtx) <=> (ctxCancelled \/ now - waitStart >= healthTimeout)
        /\ (lastWait.err.kind = "canceled" /\ ~lastWait.parentCancelled) =>
              lastWait.t1 - lastWait.t0 >= healthTimeout

\* a controller's wait begins more than healthTimeout after Deploy was called
\* and is still within its own deadline
C4_Witness ==
    /\ op = "Deploy"
    /\ pc = "Controller.Healthy"
    /\ waitStart - callStart > healthTimeout
    /\ now > waitStart
    /\ ~CtxDone(tCtx)

(***************************************************************************)
(* Claims about the watch functions.                                       *)
(***************************************************************************)
\* the readiness of a Deployment as the claim states it: the four replica
\* counters equal the desired count, 1 when Spec.Replicas is unset, and no
\* replica is unavailable
C5_Desired(d) == IF d.SpecReplicas = NilReplicas THEN 1 ELSE d.SpecReplicas

C5_Satisfies(d) ==
    /\ d.kind = "Deployment"
    /\ d.AvailableReplicas = C5_Desired(d)
    /\ d.ReadyReplicas = C5_Desired(d)
    /\ d.Replicas = C5_Desired(d)
    /\ d.UpdatedReplicas = C5_Desired(d)
    /\ d.UnavailableReplicas = 0

\* C5: deploymentHealthy returns nil only at an event whose Deployment has
\* all four replica counters equal to the desired count (Spec.Replicas, or 1
\* when unset) and no unavailable replica; it returns nil at every such event
\* it receives, so it neither goes round the loop nor receives again after one.
C5_SuccessOnFirstSatisfying ==
    wfn = "deploymentHealthy" =>
        /\ (wpc = "returned" /\ wret = NoErr) => C5_Satisfies(ev)
        /\ (wpc = "returned" /\ C5_Satisfies(ev)) => wret = NoErr
        /\ wpc = "next" => ~C5_Satisfies(ev)
        /\ wpc \in {"Watch", "select"} => ev = NoObject

\* the second event, one with Spec.Replicas unset and every counter at 1,
\* made deploymentHealthy return nil
C5_Witness ==
    /\ wfn = "deploymentHealthy"
    /\ wpc = "returned"
    /\ wret = NoErr
    /\ nrecv = 2
    /\ ev.SpecReplicas = NilReplicas

\* C6: a watch whose context was done before it received the satisfying event
\* does not return success.
C6_CancelBeatsPendingEvent ==
    (wpc = "returned" /\ wret = NoErr) => ~doneAtRecv

\* C7: when the stream closes before a satisfying event the watch returns the
\* stream-closed failure (the cancellation failure is the only other result
\* possible, and only with the context done as well); that failure differs
\* from the cancellation failure and from success and is returned for nothing
\* else; an object of another kind than the watched one makes the watch
\* return the type-mismatch failure at once, without going round the loop.
C7_ClosedAndTypeMismatch ==
    /\ ErrClosed # ErrCanceled /\ ErrClosed # NoErr /\ ErrCanceled # NoErr
    /\ wpc = "returned" =>
          /\ (ch.state = "closed" /\ ~wctxDone) => wret = ErrClosed
          /\ ch.state = "closed" => wret \in {ErrClosed, ErrCanceled}
          /\ wret = ErrClosed => (ch.state = "closed" /\ ev = NoObject)
          /\ (ev # NoObject /\ ev.kind # WatchedKind(wfn)) => wret = ErrInvalidType
          /\ wret = ErrInvalidType => (ev # NoObject /\ ev.kind # WatchedKind(wfn))
    /\ wpc = "next" => ev.kind = WatchedKind(wfn)

\* the stream closed after two events that did not satisfy, and the watch
\* returned the stream-closed failure
C7_Witness ==
    /\ wpc = "returned"
    /\ wret = ErrClosed
    /\ nrecv = 2
    /\ ~wctxDone

\* the readiness of a DaemonSet as the claim states it
C8_Satisfies(d) ==
    /\ d.kind = "DaemonSet"
    /\ d.NumberReady = d.DesiredNumberScheduled
    /\ d.NumberUnavailable = 0

\* C8: MeshnetSpec.Healthy returns nil only at a DaemonSet event with
\* NumberReady = DesiredNumberScheduled and NumberUnavailable = 0, and at
\* every such event it receives; with a first event that has
\* NumberUnavailable = 1 it returns nil only after a second event is received.
C8_MeshnetSuccessOnFirstReady ==
    wfn = "MeshnetSpec.Healthy" =>
        /\ (wpc = "returned" /\ wret = NoErr) => C8_Satisfies(ev)
        /\ (wpc = "returned" /\ C8_Satisfies(ev)) => wret = NoErr
        /\ wpc = "next" => ~C8_Satisfies(ev)
        /\ (firstUnavail = 1 /\ wret = NoErr) => nrecv >= 2

\* NumberUnavailable = 1 in the first event, 0 with matching counts in the
\* second: nil is returned at the second
C8_Witness ==
    /\ wfn = "MeshnetSpec.Healthy"
    /\ wpc = "returned"
    /\ wret = NoErr
    /\ firstUnavail = 1
    /\ nrecv = 2
    /\ ev.NumberUnavailable = 0
    /\ ev.NumberReady = ev.DesiredNumberScheduled

(***************************************************************************)
(* Claims about MetalLBSpec.Deploy.                                        *)
(***************************************************************************)
\* C9: in a call of MetalLBSpec.Deploy, once the presence check has found the
\* secret or the config-map, no Create is issued for that object and its
\* content stays what it was at the check; a call whose two checks found the
\* objects issues no Create at all.
C9_FoundIsNeverCreated ==
    /\ \A o \in MetalLBObjects :
           found[o] = "found" =>
               /\ o \notin Range(creates)
               /\ atCheck[o] # Absent
               /\ cluster[o] = atCheck[o]
    /\ (\A o \in MetalLBObjects : found[o] = "found") => creates = <<>>

\* a second Deploy returned nil without a Create, on the secret and the
\* config-map the first Deploy had made
C9_Witness ==
    /\ mpc = "returned"
    /\ mcalls = 2
    /\ mret = NoErr
    /\ \A o \in MetalLBObjects : found[o] = "found" /\ cluster[o].by = 1
    /\ creates = <<>>

(***************************************************************************)
(* Claims about inc.                                                       *)
(***************************************************************************)
\* The big-endian 32-bit value of a 4-byte address, as its two 16-bit halves
\* (value = High * 2^16 + Low): TLC's integers end before 2^32.
High(ip) == ip[1] * 256 + ip[2]

Low(ip) == ip[3] * 256 + ip[4]

\* the halves of (High * 2^16 + Low + n) modulo 2^32
SumHigh(ip, cnt) ==
    (High(ip) + (cnt \div 65536) + ((Low(ip) + (cnt % 65536)) \div 65536)) % 65536

SumLow(ip, cnt) == (Low(ip) + (cnt % 65536)) % 65536

\* C10: inc(A, N) leaves the 4-byte address A holding the big-endian value of
\* the original A plus N, modulo 2^32 (after each turn of its loop A holds the
\* original value plus the turns made, and cnt is 0 at the return).
C10_IncAddsModulo ==
    incPc \in {"loop", "done"} =>
        /\ Len(incIP) = 4
        /\ \A j \in 1 .. 4 : incIP[j] \in 0 .. 255
        /\ High(incIP) = SumHigh(incOrig, incN - incCnt)
        /\ Low(incIP) = SumLow(incOrig, incN - incCnt)
        /\ incPc = "done" => incCnt = 0

\* 255.255.255.255 + 1 wrapped to 0.0.0.0
C10_Witness ==
    /\ incPc = "done"
    /\ incOrig = <<255, 255, 255, 255>>
    /\ incN = 1
    /\ incIP = <<0, 0, 0, 0>>

(***************************************************************************)
(* Claims about makeConfig.                                                *)
(***************************************************************************)
\* the 4-byte address of the value high * 2^16 + low
AddrOf(high, low) == <<high \div 256, high % 256, low \div 256, low % 256>>

\* the address B + k modulo 2^32
Plus(B, k) == AddrOf(SumHigh(B, k), SumLow(B, k))

\* the range "<B+50> - <B+50+C>"
ExpectedRange(B, C) == IPString(Plus(B, 50)) \o " - " \o IPString(Plus(B, 50 + C))

\* makeConfig runs, from its call to the use of what it returned
InMakeConfig == mpc \in {"makeConfig", "inc(start)", "inc(end)", "CreateConfig"}

\* C11: for the IPv4 subnet n with base address B and the pool size C >= 0,
\* makeConfig returns one pool, named "default", of protocol "layer2", whose one
\* address range is "<B+50> - <B+50+C>", and no step of makeConfig changes n.
C11_MakeConfigPool ==
    /\ [](mpc = "CreateConfig" /\ IPCount >= 0 =>
              LET config == PoolConfig(start, end)
              IN  /\ Len(config) = 1
                  /\ config[1].Name = "default"
                  /\ config[1].Protocol = "layer2"
                  /\ config[1].Addresses = <<ExpectedRange(n.IP, IPCount)>>)
    /\ [][InMakeConfig => n' = n]_vars

\* makeConfig returned "172.18.0.50 - 172.18.0.60" for 172.18.0.0/16 and 10
C11_Witness ==
    /\ mpc = "CreateConfig"
    /\ n.IP = <<172, 18, 0, 0>>
    /\ IPCount = 10
    /\ PoolConfig(start, end)[1].Addresses = <<"172.18.0.50 - 172.18.0.60">>

(***************************************************************************)
(* Claims about KindSpec and IxiaTGSpec.                                   *)
(***************************************************************************)
\* the two commands whose output setupGoogleArtifactRegistryAccess captures
IsCapture(c) ==
    \/ c.out.buf = "token" /\ c.cmd = <<"gcloud", "auth", "print-access-token">>
    \/ c.out.buf = "nodes" /\ SubSeq(c.cmd, 1, 3) = <<"kind", "get", "nodes">>

\* C12: whenever a method of the host components has returned, with nil or
\* with an error, the execer's standard output is the default sink again, and
\* the only commands that ever write into a buffer are the gcloud
\* print-access-token and the kind get nodes of the call that made the buffer.
C12_StdoutRestoredOnEveryReturn ==
    /\ hpc = "idle" => stdout = DefaultSink
    /\ \A j \in 1 .. Len(cmds) :
           cmds[j].out # DefaultSink => cmds[j].out.call = hcalls /\ IsCapture(cmds[j])

\* C13: once KindSpec.Deploy or IxiaTGSpec.Deploy has returned, on any path,
\* no temporary directory or file the calls have created exists.
C13_TemporaryPathsRemoved == hpc = "idle" => made \cap files = {}

\* a KindSpec.Deploy and then an IxiaTGSpec.Deploy each made its temporary
\* path, the second returned an error, and neither path is left
C13_Witness ==
    /\ hpc = "idle"
    /\ made = {TempDockerDir(1), TempConfigMap(2)}
    /\ hret # NoErr
    /\ files = {}

\* C14: after a method has returned, DOCKER_CONFIG is in the state it had when
\* the method was called: set to the same value, or not set.
C14_DockerConfigAsBefore == hpc = "idle" => env = envAtCall

\* the positions of the cluster-info probes among the commands of the call
Probes == {j \in 1 .. Len(cmds) : cmds[j].cmd[2] = "cluster-info"}

\* kind create cluster with the arguments of the KindSpec
CreateCommand == <<"kind", "create", "cluster">> \o NameArgs(kspec)

\* the dependency check of the running KindSpec.Deploy has passed
PastDependencyCheck ==
    /\ hpc # "checkDependencies"
    /\ ~(hpc = "idle" /\ hret.kind = "MissingDependency")

\* C15: in a KindSpec.Deploy that passed its dependency check, without the
\* recycle flag no probe is issued and the creation command is the first
\* command; with the flag the first command is the one probe; when the probe
\* succeeded Deploy returned nil and ran nothing else; when it failed the
\* creation command, the same as without the flag, is the next command.
C15_RecycleProbe ==
    hop = "KindSpec.Deploy" /\ PastDependencyCheck =>
        IF ~kspec.Recycle
        THEN /\ Probes = {}
             /\ cmds # <<>> => cmds[1].cmd = CreateCommand
        ELSE /\ hpc # "recycle" => Probes = {1}
             /\ hpc = "recycle" => cmds = <<>>
             /\ (cmds # <<>> /\ cmds[1].err = NoErr) =>
                    /\ Len(cmds) = 1
                    /\ hpc = "idle"
                    /\ hret = NoErr
             /\ (cmds # <<>> /\ cmds[1].err # NoErr) =>
                    /\ Len(cmds) = 1 => hpc = "create"
                    /\ Len(cmds) > 1 => cmds[2].cmd = CreateCommand

\* the probe succeeded and Deploy returned nil with no other command
C15_Witness ==
    /\ hop = "KindSpec.Deploy"
    /\ hpc = "idle"
    /\ kspec.Recycle
    /\ Len(cmds) = 1
    /\ cmds[1].cmd[2] = "cluster-info"
    /\ cmds[1].err = NoErr
    /\ hret = NoErr

(***************************************************************************)
(* Claims about Deployment.Healthy.                                        *)
(***************************************************************************)
\* C16: Deployment.Healthy invokes nothing but Healthy, on the cluster, the
\* ingress, the CNI and the controllers in that order; a failure is the last
\* invocation and is what Healthy returns; every wait on the ingress, the CNI
\* or a controller has a deadline of healthTimeout after the moment it began,
\* which is not before the check before it ended; Healthy returns nil only
\* after all the checks succeeded.
C16_HealthyChecksInOrder ==
    (op = "Healthy" /\ pc # "panicked") =>
        /\ \A p \in 1 .. Len(calls) :
              /\ calls[p].method = "Healthy"
              /\ calls[p].stage = ClusterStage + p - 1
              /\ calls[p].stage <= ControllerStage(nctl)
              /\ p < Len(calls) => calls[p].err = NoErr
              /\ calls[p].err # NoErr => pc = "idle" /\ ret = calls[p].err
        /\ Waiting =>
              /\ tCtx.armed
              /\ tCtx.deadline = waitStart + healthTimeout
              /\ lastWait.stage # -1 => waitStart >= lastWait.t1
        /\ (lastWait.err.kind = "canceled" /\ ~lastWait.parentCancelled) =>
              lastWait.t1 - lastWait.t0 >= healthTimeout
        /\ (pc = "idle" /\ ret = NoErr) =>
              /\ Len(calls) = nctl + 3
              /\ \A p \in 1 .. Len(calls) : calls[p].err = NoErr

\* Healthy returned nil after the checks of the cluster, the ingress, the CNI
\* and every controller
C16_Witness ==
    /\ op = "Healthy"
    /\ pc = "idle"
    /\ ret = NoErr
    /\ nctl = MaxControllers
    /\ Len(calls) = nctl + 3
    /\ calls[Len(calls)] = Invocation(ControllerStage(nctl), "Healthy", NoErr)

(***************************************************************************)
(* Claims about the cluster-API handle.                                    *)
(***************************************************************************)
\* C17 as it is stated, over the life of the Deployment: a component that
\* holds a handle is never given a different one.
C17_HandleNeverReplaced ==
    [][\A s \in DOMAIN kc : kc[s] # NilHandle => kc'[s] = kc[s]]_vars

\* the positions of calls at which SetKClient was invoked on the stage
Injections(stage) ==
    {p \in 1 .. Len(calls) : calls[p].stage = stage /\ calls[p].method = "SetKClient"}

\* C17: in one Deployment.Deploy call a handle is built only while the call has
\* none yet and only right after Cluster.Deploy succeeded; the call keeps that
\* handle to its end; nothing of the ingress, the CNI or a controller is invoked
\* before it is built; every SetKClient of the call injects that very handle,
\* at most once per component, and nothing else changes a component's handle.
C17_OneHandlePerDeploy ==
    /\ [](op = "Deploy" =>
              /\ \A p \in 1 .. Len(calls) :
                     calls[p].stage # ClusterStage => kClient # NilHandle
              /\ \A s \in DOMAIN kc :
                     /\ Cardinality(Injections(s)) <= 1
                     /\ Injections(s) # {} => kc[s] = kClient)
    /\ [][nbuilt' # nbuilt =>
              /\ op = "Deploy"
              /\ kClient = NilHandle
              /\ calls = <<Invocation(ClusterStage, "Deploy", NoErr)>>
              /\ nbuilt' = nbuilt + 1
              /\ kClient' = nbuilt']_vars
    /\ [][(pc # "idle" /\ kClient # NilHandle) => kClient' = kClient]_vars
    /\ [][\A s \in DOMAIN kc :
              kc'[s] # kc[s] =>
                  /\ op = "Deploy"
                  /\ kClient # NilHandle
                  /\ kc'[s] = kClient
                  /\ Injections(s) = {}]_vars

\* a Deploy with every controller returned nil: the one handle of the call is
\* held by the ingress, the CNI and the controllers
C17_Witness ==
    /\ DeployReturned
    /\ ret = NoErr
    /\ nctl = MaxControllers
    /\ kClient # NilHandle
    /\ \A s \in IngressStage .. ControllerStage(nctl) : kc[s] = kClient

(***************************************************************************)
(* Claims about retries.                                                   *)
(***************************************************************************)
\* C18: in one Deployment.Deploy call no method of a component is invoked
\* twice and no binary is looked up twice; an invocation that failed is the
\* last one of the call, which has returned its error; a failed dependency
\* check is returned before any component is invoked.
C18_NothingRetried ==
    op = "Deploy" =>
        /\ \A p, q \in 1 .. Len(calls) :
               (calls[p].stage = calls[q].stage /\ calls[p].method = calls[q].method)
                   => p = q
        /\ \A p, q \in 1 .. Len(probed) : probed[p] = probed[q] => p = q
        /\ \A p \in 1 .. Len(calls) :
               calls[p].err # NoErr =>
                   /\ p = Len(calls)
                   /\ pc = "idle"
                   /\ ret = calls[p].err
        /\ (pc = "idle" /\ ret.kind = "MissingDependency") => calls = <<>>

\* the wait on the CNI ran into its deadline: Deploy returned that failure
\* after one Deploy and one Healthy of the CNI
C18_Witness ==
    /\ DeployReturned
    /\ ret = Err("Healthy", CNIStage, "canceled")
    /\ ~lastWait.parentCancelled
    /\ Cardinality({p \in 1 .. Len(calls) : calls[p].stage = CNIStage
                                            /\ calls[p].method = "Healthy"}) = 1
    /\ Cardinality({p \in 1 .. Len(calls) : calls[p].stage = CNIStage
                                            /\ calls[p].method = "Deploy"}) = 1

(***************************************************************************)
(* Claims about termination.                                               *)
(***************************************************************************)
\* C19: a readiness wait eventually returns, whatever the event stream does;
\* a wait that received no event returns a failure, and when the stream
\* neither delivered nor closed that failure is the cancellation one (or the
\* failure to open the watch).
C19_WaitReturns ==
    /\ <>(wpc = "returned")
    /\ [](wpc = "returned" /\ nrecv = 0 =>
              /\ wret # NoErr
              /\ ch.state # "closed" => wret \in {ErrCanceled, ErrWatchFailed})

\* the stream delivered nothing and did not close; the wait returned the
\* cancellation failure
C19_Witness ==
    /\ wpc = "returned"
    /\ nsent = 0
    /\ ch.state = "empty"
    /\ wctxDone
    /\ wret = ErrCanceled

(***************************************************************************)
(* Claims about the discovery of the kind network.                         *)
(***************************************************************************)
\* the networks named "kind" of the list NetworkList returned
C20_Kinds == {j \in 1 .. Len(nr.networks) : nr.networks[j].Name = "kind"}

\* the subnets of the first of them
C20_Config == IF C20_Kinds = {} THEN <<>> ELSE nr.networks[Min(C20_Kinds)].IPAMConfig

\* its entries that are IPv4 subnets, and its entries that are no subnets at all
C20_IPv4 == {j \in 1 .. Len(C20_Config) : C20_Config[j] \in IPv4Subnets}
C20_Unparsed == {j \in 1 .. Len(C20_Config) : C20_Config[j] = BadSubnet}

\* C20: after the "config" config-map was not found and NetworkList answered:
\* with no network named "kind", or with none of its subnets IPv4, Deploy has
\* returned an error (failed to find kind ipv4 docker net when every subnet
\* parsed) and has issued no Create of the config-map, which stays as it was;
\* when Deploy goes on to makeConfig, n is the first IPv4 subnet of the first
\* network named "kind", masked by its prefix.
C20_KindNetworkDiscovery ==
    nr.listed =>
        /\ found["config"] = "missing"
        /\ (C20_Kinds = {} \/ C20_IPv4 = {}) =>
               /\ mpc = "returned"
               /\ mret \in {MetalLBErr("failed to find kind ipv4 docker net"),
                            MetalLBErr("ParseCIDR")}
               /\ C20_Unparsed = {} =>
                      mret = MetalLBErr("failed to find kind ipv4 docker net")
               /\ "config" \notin Range(creates)
               /\ cluster["config"] = atCheck["config"]
        /\ mpc = "makeConfig" =>
               /\ C20_IPv4 # {}
               /\ n = ParseCIDR(C20_Config[Min(C20_IPv4)]).ipNet
               /\ IsIPv4(n.IP)
        /\ mpc \in {"makeConfig", "returned"}

\* the kind network comes second and its IPv4 subnet after an IPv6 one: n is
\* 10.0.255.240/28, the masked subnet of the kind network
C20_Witness ==
    /\ mpc = "makeConfig"
    /\ nr = Listed(<<OtherNetwork,
                     Network("kind", <<IPv6Subnet, Subnet(TRUE, <<10, 0, 255, 241>>, 28)>>)>>)
    /\ n.IP = <<10, 0, 255, 240>>

(***************************************************************************)
(* Claims about IxiaTGSpec.Deploy.                                         *)
(***************************************************************************)
\* the commands of IxiaTGSpec.Deploy
OperatorApply == <<"kubectl", "apply", "-f", "ixiatg-operator.yaml">>
StaticApply == <<"kubectl", "apply", "-f", "ixia-configmap.yaml">>

\* the positions of the applies of the static file among the commands
StaticApplies == {j \in 1 .. Len(cmds) : cmds[j].cmd = StaticApply}

\* the commands that would take back an apply
Undoing == {j \in 1 .. Len(cmds) : cmds[j].cmd[2] # "apply"}

\* C21: in IxiaTGSpec.Deploy without a ConfigMap the static file is applied
\* only when the check of the file succeeded; when the check failed Deploy has
\* returned the "ixia configmap not found" error and the one command it ran is
\* the apply of the operator manifest, which nothing takes back; with a
\* ConfigMap the file is neither checked nor applied.
C21_StaticConfigNeedsFile ==
    hop = "IxiaTGSpec.Deploy" =>
        /\ Undoing = {}
        /\ cmds # <<>> => cmds[1].cmd = OperatorApply
        /\ IF ixia.ConfigMap
           THEN /\ hpc \notin {"stat", "applyStatic"}
                /\ StaticApplies = {}
           ELSE /\ (hpc = "applyStatic" \/ StaticApplies # {}) =>
                       /\ StatResult(ixia) = NoErr
                       /\ cmds[1].err = NoErr
                /\ StaticApplies \subseteq {2}
                /\ (StatResult(ixia) # NoErr /\ cmds # <<>> /\ cmds[1].err = NoErr) =>
                       /\ hpc \in {"stat", "idle"}
                       /\ cmds = <<Ran(OperatorApply, NoErr)>>
                       /\ hpc = "idle" =>
                              hret = Wrap("ixia configmap not found", StatResult(ixia))

\* the operator manifest was applied, the file is not there, and Deploy has
\* returned the not-found error after that one command
C21_Witness ==
    /\ hop = "IxiaTGSpec.Deploy"
    /\ hpc = "idle"
    /\ ~ixia.ConfigMap
    /\ ~ixia.staticFile
    /\ Len(cmds) = 1
    /\ cmds[1].cmd = OperatorApply
    /\ cmds[1].err = NoErr
    /\ hret.src = "ixia configmap not found"

(***************************************************************************)
(* Claims about setupGoogleArtifactRegistryAccess.                         *)
(***************************************************************************)
\* the node names in what kind get nodes printed: every word of it
ReportedNodes(output) == SelectSeq(output, LAMBDA c : c \notin {" ", "\n"})

\* the commands of the injection
TokenCommand == <<"gcloud", "auth", "print-access-token">>
LoginCommand(j) ==
    <<"docker", "login", "-u", "oauth2accesstoken", "-p", "token", "https://" \o Registry(j)>>
NodesCommand == <<"kind", "get", "nodes">> \o NameArgs(kspec)
CopyCommand(node) == <<"docker", "cp", "config.json", node \o ":/var/lib/kubelet/config.json">>
RestartCommand(node) == <<"docker", "exec", node, "systemctl", "restart", "kubelet.service">>

\* for every node in turn its copy and then its restart
RECURSIVE PerNode(_)
PerNode(names) ==
    IF names = <<>> THEN <<>>
    ELSE <<CopyCommand(Head(names)), RestartCommand(Head(names))>> \o PerNode(Tail(names))

\* the commands of an injection in which every step succeeds, in their order
ExpectedInjection(output) ==
    <<TokenCommand>>
        \o [j \in 1 .. kspec.GoogleArtifactRegistries |-> LoginCommand(j)]
        \o <<NodesCommand>>
        \o PerNode(ReportedNodes(output))

\* the commands the injection of the running call has issued so far
IsInjection(c) ==
    \/ c.cmd = TokenCommand
    \/ c.cmd[1] = "docker" /\ c.cmd[2] \in {"login", "cp", "exec"}
    \/ SubSeq(c.cmd, 1, 3) = <<"kind", "get", "nodes">>
Injected == SelectSeq(cmds, IsInjection)

\* the injection has returned nil
InjectionDone ==
    /\ Injected # <<>>
    /\ \A j \in 1 .. Len(Injected) : Injected[j].err = NoErr
    /\ hpc \in {"pull", "tag", "load", "return", "idle"}

\* C22: the commands of the credential injection are, in this order, the
\* token command, one login per registry in listed order, the node
\* enumeration, and for every node the enumeration reported its copy followed
\* at once by its restart; a command that fails is the last command of the
\* call; when every step succeeded every reported node has had exactly one
\* copy and one restart.
C22_InjectionOrder ==
    hop = "KindSpec.Deploy" =>
        /\ Len(Injected) <= Len(ExpectedInjection(nodes))
        /\ \A j \in 1 .. Len(Injected) :
               /\ Injected[j].cmd = ExpectedInjection(nodes)[j]
               /\ Injected[j].err # NoErr =>
                      /\ j = Len(Injected)
                      /\ cmds[Len(cmds)] = Injected[j]
                      /\ hpc = "idle"
                      /\ hret # NoErr
        /\ InjectionDone => Len(Injected) = Len(ExpectedInjection(nodes))

(***************************************************************************)
(* Claims about the context name of the kind cluster.                      *)
(***************************************************************************)
\* the context KindSpec.Healthy queries
HealthyContext(spec) == "kind-" \o GetName(spec)

\* C23: for every KindSpec, the one with the empty Name too, every
\* cluster-info query, the recycle probe of KindSpec.Deploy as well as the
\* query of KindSpec.Healthy, names the context kind-<GetName()>.
C23_ProbeContextIsHealthyContext ==
    \A j \in Probes :
        cmds[j].cmd = <<"kubectl", "cluster-info", "--context", HealthyContext(kspec)>>

(***************************************************************************)
(* Claims about the handle a readiness watch is opened on.                 *)
(***************************************************************************)
\* the Healthy invocations of the ingress, the CNI and the controllers in the
\* running call: each opens a watch on the component's kClient
Watches ==
    {p \in 1 .. Len(calls) : calls[p].method = "Healthy" /\ calls[p].stage # ClusterStage}

\* C24: in every sequence of Deploy, Healthy and Delete calls, a component on
\* which a readiness watch is opened, by Deployment.Deploy or by
\* Deployment.Healthy, holds a handle that is not nil: no watch panics on a
\* nil handle.
C24_WatchOnInjectedHandle ==
    /\ pc # "panicked"
    /\ \A p \in Watches : calls[p].err.kind # "panic"

(***************************************************************************)
(* Claims about the published address range.                               *)
(***************************************************************************)
\* the 4-byte address ip lies in the network ipNet: under the mask of the
\* network it is the network's address
InSubnet(ip, ipNet) ==
    /\ Len(ip) = Len(ipNet.IP)
    /\ \A j \in 1 .. Len(ip) : MaskByte(ip[j], ipNet.bits, j) = ipNet.IP[j]

\* a <= b as big-endian values
AddrLeq(a, b) == High(a) < High(b) \/ (High(a) = High(b) /\ Low(a) <= Low(b))

\* C25: for every IPv4 subnet found for the kind network and every IPCount,
\* the start and the end of the range MetalLBSpec.Deploy publishes in its
\* config-map lie inside that subnet, and the start is not greater than the
\* end.
C25_RangeInsideSubnet ==
    mpc = "CreateConfig" =>
        /\ InSubnet(start, n)
        /\ InSubnet(end, n)
        /\ AddrLeq(start, end)

====
